---- MODULE Spec2Model ----
(***************************************************************************)
(* Model of the text-generation core of the bot:                           *)
(*   src/src/utils/text_generator.py   (model builder, update coordinator, *)
(*                                      sentence / story generator)        *)
(*   src/src/utils/message_filters.py  (message filter)                    *)
(*   src/src/database/db_handler.py    (corpus store)                      *)
(*   src/upload_data.py                (bulk ingestion utility)            *)
(*                                                                         *)
(* A text is a sequence of characters; a character is a string naming it   *)
(* ("a", ".", and "ru_k" for the Cyrillic letter ka).  A token is a text.  *)
(* All coroutines run on one asyncio event loop: the code between two      *)
(* awaits of a coroutine is one atomic step, and a synchronous function    *)
(* (every generation function) is one atomic step as a whole.              *)
(***************************************************************************)
EXTENDS Integers, Sequences, FiniteSets, TLC

(***************************************************************************)
(* Characters                                                              *)
(***************************************************************************)
LatinLower == <<"a","b","c","d","e","f","g","h","i","j","k","l","m",
                "n","o","p","q","r","s","t","u","v","w","x","y","z">>
LatinUpper == <<"A","B","C","D","E","F","G","H","I","J","K","L","M",
                "N","O","P","Q","R","S","T","U","V","W","X","Y","Z">>
CyrLower == <<"ru_a","ru_b","ru_v","ru_g","ru_d","ru_e","ru_yo","ru_zh",
              "ru_z","ru_i","ru_j","ru_k","ru_l","ru_m","ru_n","ru_o",
              "ru_p","ru_r","ru_s","ru_t","ru_u","ru_f","ru_h","ru_c",
              "ru_ch","ru_sh","ru_shch","ru_hard","ru_y","ru_soft","ru_eh","ru_yu",
              "ru_ya">>
CyrUpper == <<"RU_A","RU_B","RU_V","RU_G","RU_D","RU_E","RU_YO","RU_ZH",
              "RU_Z","RU_I","RU_J","RU_K","RU_L","RU_M","RU_N","RU_O",
              "RU_P","RU_R","RU_S","RU_T","RU_U","RU_F","RU_H","RU_C",
              "RU_CH","RU_SH","RU_SHCH","RU_HARD","RU_Y","RU_SOFT","RU_EH","RU_YU",
              "RU_YA">>
DigitChars == {"0","1","2","3","4","5","6","7","8","9"}

Range(s) == {s[i] : i \in DOMAIN s}

AsciiLetters == Range(LatinLower) \cup Range(LatinUpper)
Letters == AsciiLetters \cup Range(CyrLower) \cup Range(CyrUpper)
UpperChars == Range(LatinUpper) \cup Range(CyrUpper)
\* \w of the re module on str patterns: letters, digits and underscore
WordChars == Letters \cup DigitChars \cup {"_"}
\* \s
SpaceChars == {" ", "\t", "\n"}
TerminalPunct == {".", "!", "?"}
TokenPunct == {".", ",", "!", "?"}

\* str.lower() on one character
LowerChar(c) ==
    IF \E i \in DOMAIN LatinUpper : LatinUpper[i] = c
    THEN LatinLower[CHOOSE i \in DOMAIN LatinUpper : LatinUpper[i] = c]
    ELSE IF \E i \in DOMAIN CyrUpper : CyrUpper[i] = c
    THEN CyrLower[CHOOSE i \in DOMAIN CyrUpper : CyrUpper[i] = c]
    ELSE c

\* str.upper() on one character
UpperChar(c) ==
    IF \E i \in DOMAIN LatinLower : LatinLower[i] = c
    THEN LatinUpper[CHOOSE i \in DOMAIN LatinLower : LatinLower[i] = c]
    ELSE IF \E i \in DOMAIN CyrLower : CyrLower[i] = c
    THEN CyrUpper[CHOOSE i \in DOMAIN CyrLower : CyrLower[i] = c]
    ELSE c

\* str.lower()
Lower(s) == [i \in DOMAIN s |-> LowerChar(s[i])]

\* str.isalpha(): non-empty and every character a letter
IsAlpha(s) == s # <<>> /\ \A i \in DOMAIN s : s[i] \in Letters

(***************************************************************************)
(* forbidden_endings (the list, as the set of its words)                   *)
(***************************************************************************)
forbidden_endings ==
    {<<"ru_i">>, <<"ru_i","ru_l","ru_i">>, <<"ru_n","ru_o">>, <<"ru_a">>,
     <<"ru_d","ru_a">>, <<"ru_l","ru_i","ru_b","ru_o">>,
     <<"ru_z","ru_a","ru_t","ru_o">>,
     <<"ru_o","ru_d","ru_n","ru_a","ru_k","ru_o">>,
     <<"ru_h","ru_o","ru_t","ru_ya">>, <<"ru_ch","ru_t","ru_o">>,
     <<"ru_ch","ru_t","ru_o","ru_b","ru_y">>,
     <<"ru_e","ru_s","ru_l","ru_i">>, <<"ru_p","ru_o","ru_k","ru_a">>,
     <<"ru_k","ru_o","ru_g","ru_d","ru_a">>, <<"ru_v">>, <<"ru_n","ru_a">>,
     <<"ru_p","ru_o","ru_d">>, <<"ru_n","ru_a","ru_d">>, <<"ru_z","ru_a">>,
     <<"ru_p","ru_e","ru_r","ru_e","ru_d">>,
     <<"ru_ch","ru_e","ru_r","ru_e","ru_z">>, <<"ru_k">>, <<"ru_o","ru_t">>,
     <<"ru_i","ru_z">>, <<"ru_s">>, <<"ru_u">>, <<"ru_o">>,
     <<"ru_o","ru_b">>, <<"ru_p","ru_r","ru_o">>, <<"ru_p","ru_o">>,
     <<"ru_d","ru_o">>, <<"ru_zh","ru_e">>, <<"ru_b","ru_y">>,
     <<"ru_l","ru_i">>, <<"ru_v","ru_e","ru_d","ru_soft">>,
     <<"ru_v","ru_o","ru_t">>, <<"ru_n","ru_u">>, <<"ru_n","ru_e">>,
     <<"ru_n","ru_i">>, <<"ru_d","ru_a","ru_zh","ru_e">>,
     <<"ru_l","ru_i","ru_sh","ru_soft">>,
     <<"ru_t","ru_o","ru_l","ru_soft","ru_k","ru_o">>, <<"ru_a","ru_zh">>,
     <<"ru_o","ru_j">>, <<"ru_a","ru_h">>, <<"ru_o","ru_j">>,
     <<"ru_eh","ru_h">>, <<"ru_u","ru_v","ru_y">>, <<"ru_u","ru_h">>,
     <<"ru_u","ru_r","ru_a">>, <<"ru_eh","ru_t","ru_o">>,
     <<"ru_k","ru_a","ru_k">>, <<"ru_t","ru_a","ru_k">>,
     <<"ru_g","ru_d","ru_e">>, <<"ru_k","ru_u","ru_d","ru_a">>,
     <<"ru_o","ru_t","ru_k","ru_u","ru_d","ru_a">>,
     <<"ru_k","ru_o","ru_t","ru_o","ru_r","ru_y","ru_j">>,
     <<"ru_k","ru_o","ru_t","ru_o","ru_r","ru_a","ru_ya">>,
     <<"ru_k","ru_o","ru_t","ru_o","ru_r","ru_o","ru_e">>,
     <<"ru_k","ru_o","ru_t","ru_o","ru_r","ru_y","ru_e">>,
     <<"ru_ch","ru_e","ru_j">>, <<"ru_ch","ru_soft","ru_ya">>,
     <<"ru_ch","ru_soft","ru_yo">>, <<"ru_ch","ru_soft","ru_i">>,
     <<"ru_k","ru_a","ru_k","ru_o","ru_j">>,
     <<"ru_k","ru_a","ru_k","ru_a","ru_ya">>,
     <<"ru_k","ru_a","ru_k","ru_o","ru_e">>,
     <<"ru_k","ru_a","ru_k","ru_i","ru_e">>, <<"ru_m","ru_o","ru_j">>,
     <<"ru_t","ru_v","ru_o","ru_j">>, <<"ru_e","ru_g","ru_o">>,
     <<"ru_e","ru_yo">>, <<"ru_n","ru_a","ru_sh">>,
     <<"ru_v","ru_a","ru_sh">>, <<"ru_i","ru_h">>}

(***************************************************************************)
(* tokenize_text                                                           *)
(***************************************************************************)
\* the indices of the set S, all at most n, in increasing order
Ascending(S, n) == SelectSeq([i \in 1 .. n |-> i], LAMBDA i : i \in S)

\* the last index of the maximal run of characters of class C that holds i
RunEnd(s, i, C) ==
    CHOOSE j \in i .. Len(s) :
        /\ \A k \in i .. j : s[k] \in C
        /\ j = Len(s) \/ s[j + 1] \notin C

\* re.sub(r'[^\w\s.,!?]', '', text.lower())
Cleaned(text) ==
    SelectSeq(Lower(text),
              LAMBDA c : c \in WordChars \cup SpaceChars \cup TokenPunct)

\* re.findall(r'\w+|[.,!?]', s): the matches are, from left to right, the
\* maximal runs of word characters and the single marks . , ! ?
FindTokens(s) ==
    LET starts == Ascending({i \in DOMAIN s :
                      \/ s[i] \in TokenPunct
                      \/ s[i] \in WordChars
                           /\ (i = 1 \/ s[i - 1] \notin WordChars)}, Len(s))
    IN  [n \in 1 .. Len(starts) |->
            IF s[starts[n]] \in TokenPunct THEN <<s[starts[n]]>>
            ELSE SubSeq(s, starts[n], RunEnd(s, starts[n], WordChars))]

tokenize_text(text) == FindTokens(Cleaned(text))

(***************************************************************************)
(* str.strip() and str.split()                                             *)
(***************************************************************************)
RECURSIVE LStrip(_)
LStrip(s) == IF s # <<>> /\ Head(s) \in SpaceChars THEN LStrip(Tail(s)) ELSE s

RECURSIVE RStrip(_)
RStrip(s) ==
    IF s # <<>> /\ s[Len(s)] \in SpaceChars
    THEN RStrip(SubSeq(s, 1, Len(s) - 1)) ELSE s

Strip(s) == RStrip(LStrip(s))

\* every character of the model's alphabet that is not whitespace
NonSpaceOf(s) == Range(s) \ SpaceChars

\* str.split(): the maximal runs of non-whitespace characters
Split(s) ==
    LET starts == Ascending({i \in DOMAIN s :
                      s[i] \notin SpaceChars
                      /\ (i = 1 \/ s[i - 1] \in SpaceChars)}, Len(s))
    IN  [n \in 1 .. Len(starts) |->
            SubSeq(s, starts[n], RunEnd(s, starts[n], NonSpaceOf(s)))]

(***************************************************************************)
(* Model Builder: the transition table                                     *)
(***************************************************************************)
\* defaultdict(list) with no key
EmptyTable == [k \in {} |-> <<>>]

\* the tokens appended to bucket k by the loop of line 76..77, in order
Successors(tokens, k) ==
    LET at == Ascending({i \in 1 .. Len(tokens) - 1 : tokens[i] = k},
                        Len(tokens))
    IN  [n \in 1 .. Len(at) |-> tokens[at[n] + 1]]

\* for i in range(len(tokens) - 1): temp_model[tokens[i]].append(tokens[i+1])
AddTokens(m, tokens) ==
    LET keys == {tokens[i] : i \in 1 .. Len(tokens) - 1} IN
    [k \in DOMAIN m \cup keys |->
        (IF k \in DOMAIN m THEN m[k] ELSE <<>>) \o Successors(tokens, k)]

\* for message in messages: ... (a message of fewer than 2 tokens adds nothing)
RECURSIVE BuildTableFrom(_, _, _)
BuildTableFrom(m, messages, j) ==
    IF j > Len(messages) THEN m
    ELSE LET tokens == tokenize_text(messages[j]) IN
         BuildTableFrom(IF Len(tokens) < 2 THEN m ELSE AddTokens(m, tokens),
                        messages, j + 1)

BuildTable(messages) == BuildTableFrom(EmptyTable, messages, 1)

(***************************************************************************)
(* Model Builder: the text handed to markovify.Text                        *)
(***************************************************************************)
\* text = msg[0].strip(); append '.' unless it ends in '.', '!' or '?'
PrepareMessage(msg) ==
    LET text == Strip(msg) IN
    IF text # <<>> /\ text[Len(text)] \notin TerminalPunct
    THEN Append(text, ".") ELSE text

RECURSIVE ProcessedFrom(_, _)
ProcessedFrom(messages, j) ==
    IF j > Len(messages) THEN <<>>
    ELSE LET text == PrepareMessage(messages[j]) IN
         (IF Len(Split(text)) >= 3 THEN <<text>> ELSE <<>>)
            \o ProcessedFrom(messages, j + 1)

processed_messages(messages) == ProcessedFrom(messages, 1)

\* markovify_model = None
NoNgram == [present |-> FALSE, sentences |-> <<>>]

\* mutant: the n-gram model is built from every message
BuildNgramFromAll(messages) ==
    IF messages = <<>> THEN NoNgram
    ELSE [present |-> TRUE, sentences |-> messages]

\* new_markovify_model: None when no message qualifies, otherwise the
\* markovify.Text object, known here by the sentences it was built from
BuildNgram(messages) ==
    LET p == processed_messages(messages) IN
    IF p = <<>> THEN NoNgram ELSE [present |-> TRUE, sentences |-> p]

(***************************************************************************)
(* Message Filter                                                          *)
(***************************************************************************)
\* text is None
NoneText == <<"None">>

HasAt(s, i, pat) ==
    i + Len(pat) - 1 <= Len(s) /\ SubSeq(s, i, i + Len(pat) - 1) = pat

\* the class [a-zA-Z]|[0-9]|[$-_@.&+]|[!*\\(\\),]|(?:%[0-9a-fA-F][0-9a-fA-F])
\* of url_pattern; [$-_] is the range 0x24..0x5F, which holds '%'
UrlChars ==
    AsciiLetters \cup DigitChars \cup
    {"$", "%", "&", "'", "(", ")", "*", "+", ",", "-", ".", "/", ":", ";",
     "<", "=", ">", "?", "@", "[", "\\", "]", "^", "_", "!"}

\* url_pattern.search(text): http[s]?://X+ | (www\.)+X+ |
\* ([a-zA-Z0-9]([a-zA-Z0-9-]{0,61}[a-zA-Z0-9])?\.)+[a-zA-Z]{2,6}
contains_link(text) ==
    \E i \in DOMAIN text :
        \/ /\ HasAt(text, i, <<"h","t","t","p",":","/","/">>)
           /\ i + 7 <= Len(text) /\ text[i + 7] \in UrlChars
        \/ /\ HasAt(text, i, <<"h","t","t","p","s",":","/","/">>)
           /\ i + 8 <= Len(text) /\ text[i + 8] \in UrlChars
        \/ /\ HasAt(text, i, <<"w","w","w",".">>)
           /\ i + 4 <= Len(text) /\ text[i + 4] \in UrlChars
        \/ /\ i + 3 <= Len(text)
           /\ text[i] \in AsciiLetters \cup DigitChars
           /\ text[i + 1] = "."
           /\ text[i + 2] \in AsciiLetters
           /\ text[i + 3] \in AsciiLetters

\* re.compile(r'@\w+').search(text)
contains_mentions(text) ==
    \E i \in DOMAIN text :
        text[i] = "@" /\ i + 1 <= Len(text) /\ text[i + 1] \in WordChars

\* the complement of [^\w\s.,!?\'\"<laquo><raquo>()-:;]; ")-:" is the range 0x29..0x3A
PlainChars ==
    WordChars \cup SpaceChars \cup
    {".", ",", "!", "?", "'", "\"", "laquo", "raquo", "(",
     ")", "*", "+", "-", "/", ":", ";"}

contains_special_characters(text) ==
    \E i \in DOMAIN text : text[i] \notin PlainChars

\* mutant: texts of two characters pass the length check
IsMessageValidFromTwo(text) ==
    IF text = NoneText THEN FALSE
    ELSE IF Len(text) < 2 THEN FALSE
    ELSE IF contains_link(text) THEN FALSE
    ELSE IF contains_mentions(text) THEN FALSE
    ELSE IF contains_special_characters(text) THEN FALSE
    ELSE IF text[1] = "/" THEN FALSE
    ELSE TRUE

is_message_valid(text) ==
    IF text = NoneText THEN FALSE
    ELSE IF Len(text) < 3 THEN FALSE
    ELSE IF contains_link(text) THEN FALSE
    ELSE IF contains_mentions(text) THEN FALSE
    ELSE IF contains_special_characters(text) THEN FALSE
    ELSE IF text[1] = "/" THEN FALSE
    ELSE TRUE

(***************************************************************************)
(* Generator: fixed sentences                                              *)
(***************************************************************************)
\* line 135
NoDataSentence ==
    <<"RU_U"," ","ru_m","ru_e","ru_n","ru_ya"," ","ru_e","ru_shch","ru_e",
      " ","ru_n","ru_e","ru_t"," ","ru_d","ru_a","ru_n","ru_n","ru_y",
      "ru_h"," ","ru_d","ru_l","ru_ya"," ","ru_g","ru_e","ru_n","ru_e",
      "ru_r","ru_a","ru_c","ru_i","ru_i"," ","ru_t","ru_e","ru_k","ru_s",
      "ru_t","ru_a",".">>

\* line 138..147
base_sentences ==
    {<<"RU_I","ru_n","ru_t","ru_e","ru_r","ru_e","ru_s","ru_n","ru_y","ru_j"," ",
       "ru_f","ru_a","ru_k","ru_t"," ","ru_o"," ","ru_t","ru_o","ru_m",","," ",
       "ru_ch","ru_t","ru_o"," ","ru_v"," ","ru_m","ru_i","ru_r","ru_e"," ",
       "ru_m","ru_n","ru_o","ru_g","ru_o"," ","ru_i","ru_n","ru_t","ru_e","ru_r",
       "ru_e","ru_s","ru_n","ru_o","ru_g","ru_o",".">>,
     <<"RU_Z","ru_n","ru_a","ru_e","ru_t","ru_e"," ","ru_l","ru_i"," ","ru_v",
       "ru_y",","," ","ru_ch","ru_t","ru_o"," ","ru_k","ru_a","ru_zh","ru_d",
       "ru_y","ru_j"," ","ru_d","ru_e","ru_n","ru_soft"," ","ru_p","ru_r","ru_o",
       "ru_i","ru_s","ru_h","ru_o","ru_d","ru_i","ru_t"," ","ru_ch","ru_t",
       "ru_o","-","ru_t","ru_o"," ","ru_n","ru_o","ru_v","ru_o","ru_e",".">>,
     <<"RU_M","ru_y","ru_s","ru_l","ru_i"," ","ru_o"," ","ru_b","ru_u","ru_d",
       "ru_u","ru_shch","ru_e","ru_m"," ","ru_v","ru_s","ru_e","ru_g","ru_d",
       "ru_a"," ","ru_v","ru_y","ru_z","ru_y","ru_v","ru_a","ru_yu","ru_t"," ",
       "ru_r","ru_a","ru_z","ru_n","ru_y","ru_e"," ","ru_eh","ru_m","ru_o",
       "ru_c","ru_i","ru_i"," ","ru_u"," ","ru_l","ru_yu","ru_d","ru_e","ru_j",
       ".">>,
     <<"RU_V"," ","ru_p","ru_r","ru_o","ru_sh","ru_l","ru_o","ru_m"," ","ru_v",
       "ru_e","ru_k","ru_e"," ","ru_t","ru_e","ru_h","ru_n","ru_o","ru_l","ru_o",
       "ru_g","ru_i","ru_i"," ","ru_r","ru_a","ru_z","ru_v","ru_i","ru_v","ru_a",
       "ru_l","ru_i","ru_s","ru_soft"," ","ru_s","ru_t","ru_r","ru_e","ru_m",
       "ru_i","ru_t","ru_e","ru_l","ru_soft","ru_n","ru_o",".">>,
     <<"RU_P","ru_u","ru_t","ru_e","ru_sh","ru_e","ru_s","ru_t","ru_v","ru_i",
       "ru_e"," ","ru_v"," ","ru_g","ru_o","ru_r","ru_y"," ","ru_d","ru_a",
       "ru_r","ru_i","ru_t"," ","ru_n","ru_e","ru_z","ru_a","ru_b","ru_y","ru_v",
       "ru_a","ru_e","ru_m","ru_y","ru_e"," ","ru_v","ru_p","ru_e","ru_ch",
       "ru_a","ru_t","ru_l","ru_e","ru_n","ru_i","ru_ya",".">>,
     <<"RU_S","ru_o","ru_v","ru_r","ru_e","ru_m","ru_e","ru_n","ru_n","ru_a",
       "ru_ya"," ","ru_l","ru_i","ru_t","ru_e","ru_r","ru_a","ru_t","ru_u",
       "ru_r","ru_a"," ","ru_p","ru_r","ru_e","ru_d","ru_l","ru_a","ru_g","ru_a",
       "ru_e","ru_t"," ","ru_m","ru_n","ru_o","ru_g","ru_o"," ","ru_i","ru_n",
       "ru_t","ru_e","ru_r","ru_e","ru_s","ru_n","ru_y","ru_h"," ","ru_i","ru_d",
       "ru_e","ru_j",".">>,
     <<"RU_I","ru_s","ru_t","ru_o","ru_r","ru_i","ru_ya"," ","ru_ch","ru_e",
       "ru_l","ru_o","ru_v","ru_e","ru_ch","ru_e","ru_s","ru_t","ru_v","ru_a",
       " ","ru_p","ru_o","ru_l","ru_n","ru_a"," ","ru_u","ru_d","ru_i","ru_v",
       "ru_i","ru_t","ru_e","ru_l","ru_soft","ru_n","ru_y","ru_h"," ","ru_o",
       "ru_t","ru_k","ru_r","ru_y","ru_t","ru_i","ru_j",".">>,
     <<"RU_N","ru_a","ru_u","ru_k","ru_a"," ","ru_n","ru_e"," ","ru_s","ru_t",
       "ru_o","ru_i","ru_t"," ","ru_n","ru_a"," ","ru_m","ru_e","ru_s","ru_t",
       "ru_e"," ","ru_i"," ","ru_p","ru_o","ru_s","ru_t","ru_o","ru_ya","ru_n",
       "ru_n","ru_o"," ","ru_r","ru_a","ru_z","ru_v","ru_i","ru_v","ru_a","ru_e",
       "ru_t","ru_s","ru_ya",".">>}

\* line 252
SentenceErrorSentence ==
    <<"RU_P","ru_r","ru_o","ru_i","ru_z","ru_o","ru_sh","ru_l","ru_a"," ",
      "ru_o","ru_sh","ru_i","ru_b","ru_k","ru_a"," ","ru_p","ru_r","ru_i",
      " ","ru_g","ru_e","ru_n","ru_e","ru_r","ru_a","ru_c","ru_i","ru_i",
      " ","ru_t","ru_e","ru_k","ru_s","ru_t","ru_a","."," ","RU_P","ru_o",
      "ru_zh","ru_a","ru_l","ru_u","ru_j","ru_s","ru_t","ru_a",","," ",
      "ru_p","ru_o","ru_p","ru_r","ru_o","ru_b","ru_u","ru_j","ru_t","ru_e",
      " ","ru_e","ru_shch","ru_yo"," ","ru_r","ru_a","ru_z",".">>

\* line 267
StoryEmptySentence ==
    <<"RU_G","ru_e","ru_n","ru_e","ru_r","ru_a","ru_c","ru_i","ru_ya"," ",
      "ru_i","ru_s","ru_t","ru_o","ru_r","ru_i","ru_i"," ","ru_n","ru_e",
      " ","ru_u","ru_d","ru_a","ru_l","ru_a","ru_s","ru_soft","."," ",
      "RU_P","ru_o","ru_zh","ru_a","ru_l","ru_u","ru_j","ru_s","ru_t",
      "ru_a",","," ","ru_p","ru_o","ru_p","ru_r","ru_o","ru_b","ru_u",
      "ru_j","ru_t","ru_e"," ","ru_s","ru_n","ru_o","ru_v","ru_a",".">>

\* line 272
StoryErrorSentence ==
    <<"RU_P","ru_r","ru_o","ru_i","ru_z","ru_o","ru_sh","ru_l","ru_a"," ",
      "ru_o","ru_sh","ru_i","ru_b","ru_k","ru_a"," ","ru_p","ru_r","ru_i",
      " ","ru_g","ru_e","ru_n","ru_e","ru_r","ru_a","ru_c","ru_i","ru_i",
      " ","ru_i","ru_s","ru_t","ru_o","ru_r","ru_i","ru_i","."," ","RU_P",
      "ru_o","ru_zh","ru_a","ru_l","ru_u","ru_j","ru_s","ru_t","ru_a",",",
      " ","ru_p","ru_o","ru_p","ru_r","ru_o","ru_b","ru_u","ru_j","ru_t",
      "ru_e"," ","ru_e","ru_shch","ru_yo"," ","ru_r","ru_a","ru_z",".">>

ForbiddenWords ==
    <<<<"ru_i">>,
      <<"ru_i","ru_l","ru_i">>,
      <<"ru_n","ru_o">>,
      <<"ru_a">>,
      <<"ru_d","ru_a">>,
      <<"ru_l","ru_i","ru_b","ru_o">>,
      <<"ru_z","ru_a","ru_t","ru_o">>,
      <<"ru_o","ru_d","ru_n","ru_a","ru_k","ru_o">>,
      <<"ru_h","ru_o","ru_t","ru_ya">>,
      <<"ru_ch","ru_t","ru_o">>,
      <<"ru_ch","ru_t","ru_o","ru_b","ru_y">>,
      <<"ru_e","ru_s","ru_l","ru_i">>,
      <<"ru_p","ru_o","ru_k","ru_a">>,
      <<"ru_k","ru_o","ru_g","ru_d","ru_a">>,
      <<"ru_v">>,
      <<"ru_n","ru_a">>,
      <<"ru_p","ru_o","ru_d">>,
      <<"ru_n","ru_a","ru_d">>,
      <<"ru_z","ru_a">>,
      <<"ru_p","ru_e","ru_r","ru_e","ru_d">>,
      <<"ru_ch","ru_e","ru_r","ru_e","ru_z">>,
      <<"ru_k">>,
      <<"ru_o","ru_t">>,
      <<"ru_i","ru_z">>,
      <<"ru_s">>,
      <<"ru_u">>,
      <<"ru_o">>,
      <<"ru_o","ru_b">>,
      <<"ru_p","ru_r","ru_o">>,
      <<"ru_p","ru_o">>,
      <<"ru_d","ru_o">>,
      <<"ru_zh","ru_e">>,
      <<"ru_b","ru_y">>,
      <<"ru_l","ru_i">>,
      <<"ru_v","ru_e","ru_d","ru_soft">>,
      <<"ru_v","ru_o","ru_t">>,
      <<"ru_n","ru_u">>,
      <<"ru_n","ru_e">>,
      <<"ru_n","ru_i">>,
      <<"ru_d","ru_a","ru_zh","ru_e">>,
      <<"ru_l","ru_i","ru_sh","ru_soft">>,
      <<"ru_t","ru_o","ru_l","ru_soft","ru_k","ru_o">>,
      <<"ru_a","ru_zh">>,
      <<"ru_o","ru_j">>,
      <<"ru_a","ru_h">>,
      <<"ru_eh","ru_h">>,
      <<"ru_u","ru_v","ru_y">>,
      <<"ru_u","ru_h">>,
      <<"ru_u","ru_r","ru_a">>,
      <<"ru_eh","ru_t","ru_o">>,
      <<"ru_k","ru_a","ru_k">>>>

(***************************************************************************)
(* Generator                                                               *)
(*                                                                         *)
(* The four functions are synchronous: a call runs from its first line to  *)
(* its return with no await, so it works on the two globals as they stand  *)
(* when it is called.  The operators take that table m and n-gram model ng *)
(* and give every outcome the random choices allow.                        *)
(***************************************************************************)
\* steps of the walk of line 167..183 followed before it counts as endless
MaxSteps == 40

\* a call returns a text, raises to its caller, or never returns
Returns(text) == [status |-> "returned", text |-> text]
Raises == [status |-> "raised", text |-> <<>>]
Hangs == [status |-> "hung", text |-> <<>>]

\* '.', '!', '?' as tokens
TerminalTokens == {<<c>> : c \in TerminalPunct}

\* str.capitalize()
Capitalize(w) ==
    IF w = <<>> THEN w ELSE <<UpperChar(Head(w))>> \o Lower(Tail(w))

capitalize_first_letter(text) ==
    IF text = <<>> THEN text ELSE <<UpperChar(Head(text))>> \o Tail(text)

\* sep.join(words)
RECURSIVE Join(_, _)
Join(words, sep) ==
    IF words = <<>> THEN <<>>
    ELSE IF Len(words) = 1 THEN Head(words)
    ELSE Head(words) \o sep \o Join(Tail(words), sep)

\* s.replace(' ' + c, c)
DropSpaceBefore(s, c) ==
    LET keep == Ascending({i \in DOMAIN s :
                    ~(s[i] = " " /\ i < Len(s) /\ s[i + 1] = c)}, Len(s))
    IN  [n \in 1 .. Len(keep) |-> s[keep[n]]]

\* line 192
FixPunctuation(s) ==
    DropSpaceBefore(DropSpaceBefore(DropSpaceBefore(DropSpaceBefore(
        s, ","), "."), "!"), "?")

\* mutant: the sentence is left as the walk ended it
FormatSentenceUnclosed(words) == FixPunctuation(Join(words, <<" ">>))

\* line 186..194: close the sentence and format it
FormatSentence(words) ==
    FixPunctuation(Join(
        IF words[Len(words)] \notin TerminalTokens
        THEN Append(words, <<".">>) ELSE words, <<" ">>))

\* mutant: the loop is left at the first terminal token
RECURSIVE WalkToFirstStop(_, _, _, _, _, _, _)
WalkToFirstStop(m, words, current, length, min_words, max_words, fuel) ==
    IF length >= max_words THEN {words}
    ELSE IF current \notin DOMAIN m \/ m[current] = <<>> THEN {words}
    ELSE IF fuel = 0 THEN {<<>>}
    ELSE UNION {
        LET next_word == m[current][i]
            grown == Append(words, next_word)
            counted == IF IsAlpha(next_word) THEN length + 1 ELSE length
        IN  IF next_word \in TerminalTokens
            THEN {grown}
            ELSE WalkToFirstStop(m, grown, next_word, counted, min_words,
                                 max_words, fuel - 1)
        : i \in DOMAIN m[current]}

\* line 167..183: every list of words the loop can end with; <<>> stands
\* for a walk still running after MaxSteps steps
RECURSIVE Walk(_, _, _, _, _, _, _)
Walk(m, words, current, length, min_words, max_words, fuel) ==
    IF length >= max_words THEN {words}
    ELSE IF current \notin DOMAIN m \/ m[current] = <<>> THEN {words}
    ELSE IF fuel = 0 THEN {<<>>}
    ELSE UNION {
        LET next_word == m[current][i]
            grown == Append(words, next_word)
            counted == IF IsAlpha(next_word) THEN length + 1 ELSE length
        IN  IF next_word \in TerminalTokens /\ counted >= min_words
            THEN {grown}
            ELSE Walk(m, grown, next_word, counted, min_words, max_words,
                      fuel - 1)
        : i \in DOMAIN m[current]}

\* line 152..153
start_words(m) ==
    {word \in DOMAIN m :
        word # <<>> /\ Head(word) \in Letters /\ word \notin forbidden_endings}

\* mutant: the walk is made however few keys the table has
CustomAlwaysWalks(m, min_words, max_words) ==
    IF DOMAIN m = {} THEN {Returns(NoDataSentence)}
    ELSE IF start_words(m) # {}
    THEN UNION {
            {IF words = <<>> THEN Hangs ELSE Returns(FormatSentence(words)) :
                words \in Walk(m, <<Capitalize(current)>>, current, 1,
                               min_words, max_words, MaxSteps)}
            : current \in start_words(m)}
    ELSE {Returns(sentence) : sentence \in base_sentences}

\* mutant: a table of 50 keys is walked
CustomWalksFromFifty(m, min_words, max_words) ==
    IF DOMAIN m = {} THEN {Returns(NoDataSentence)}
    ELSE IF Cardinality(DOMAIN m) >= 50 /\ start_words(m) # {}
    THEN UNION {
            {IF words = <<>> THEN Hangs ELSE Returns(FormatSentence(words)) :
                words \in Walk(m, <<Capitalize(current)>>, current, 1,
                               min_words, max_words, MaxSteps)}
            : current \in start_words(m)}
    ELSE {Returns(sentence) : sentence \in base_sentences}

\* generate_sentence_custom(min_words, max_words) on the table m; nothing
\* in the try block raises on a table built by update_markov_model
generate_sentence_custom(m, min_words, max_words) ==
    IF DOMAIN m = {} THEN {Returns(NoDataSentence)}
    ELSE IF Cardinality(DOMAIN m) > 50 /\ start_words(m) # {}
    THEN UNION {
            {IF words = <<>> THEN Hangs ELSE Returns(FormatSentence(words)) :
                words \in Walk(m, <<Capitalize(current)>>, current, 1,
                               min_words, max_words, MaxSteps)}
            : current \in start_words(m)}
    ELSE {Returns(sentence) : sentence \in base_sentences}

\* markov_model is a defaultdict(list): indexing it with a key it does not
\* hold stores an empty bucket under that key
Bucket(m, key) == IF key \in DOMAIN m THEN m[key] ELSE <<>>
Indexing(m, keys) == [key \in DOMAIN m \cup keys |-> Bucket(m, key)]

\* mutant: line 168 without its first operand
NotInModelSkipped(m, current) == FALSE

\* line 168: current not in markov_model
NotInModel(m, current) == current \notin DOMAIN m

\* line 167..183: the tokens the walk from current that ended with words
\* indexed markov_model with (markov_model[current] at lines 168 and 171):
\* each pass of the loop that appended a word indexed its current; after
\* the last word a further pass is made unless the loop was left at line
\* 183 or max_words is reached, and it indexes unless line 168 finds the
\* key missing
Indexed(m, current, words, min_words, max_words) ==
    LET n == Len(words)
        last == IF n = 1 THEN current ELSE words[n]
        length == 1 + Cardinality({i \in 2 .. n : IsAlpha(words[i])})
        left == n > 1 /\ last \in TerminalTokens /\ length >= min_words
    IN  (IF n > 1 THEN {current} \cup {words[i] : i \in 2 .. n - 1} ELSE {})
        \cup (IF length < max_words /\ ~left /\ ~NotInModel(m, last)
              THEN {last} ELSE {})

\* the sets of keys one call of generate_sentence_custom can add to m; a
\* walk still running has found a key at every pass
CustomAdds(m, min_words, max_words) ==
    IF Cardinality(DOMAIN m) > 50 /\ start_words(m) # {}
    THEN UNION {
            {IF words = <<>> THEN {}
             ELSE Indexed(m, current, words, min_words, max_words) \ DOMAIN m :
                words \in Walk(m, <<Capitalize(current)>>, current, 1,
                               min_words, max_words, MaxSteps)}
            : current \in start_words(m)}
    ELSE {{}}

\* generate_sentence_markovify indexes markov_model in its fallback only
MarkovifyAdds(m) == {{}} \cup CustomAdds(m, 8, 20)

\* generate_sentence: up to three strategy calls (line 229..247)
SentenceAdds(m, min_words, max_words) ==
    {x \cup y \cup z :
        x \in MarkovifyAdds(m) \cup CustomAdds(m, min_words, max_words),
        y \in MarkovifyAdds(m) \cup CustomAdds(m, min_words, max_words),
        z \in {{}} \cup CustomAdds(m, min_words, 30)}

\* generate_story: one generate_sentence per sentence (line 261..263)
StoryAdds(m, min_sentences, max_sentences, min_words, max_words) ==
    {{}} \cup UNION {
        {UNION {parts[i] : i \in 1 .. k} :
            parts \in [1 .. k -> SentenceAdds(m, min_words, max_words)]}
        : k \in min_sentences .. max_sentences}

\* s.rstrip(chars)
RStripOf(s, C) ==
    IF \A i \in DOMAIN s : s[i] \in C THEN <<>>
    ELSE SubSeq(s, 1, CHOOSE j \in DOMAIN s :
                        s[j] \notin C /\ \A k \in j + 1 .. Len(s) : s[k] \in C)

\* markovify_model.make_sentence(...) returns None, raises, or returns a
\* sentence; markovify is a library: a sentence it returns is taken from
\* the sentences the model was built from
Produced(ng) == Range(ng.sentences)

\* mutant: the last word is not looked at
AcceptsAnyEnding(sentence) == Split(sentence) # <<>>

\* line 216..217
Acceptable(sentence) ==
    LET words == Split(sentence) IN
    /\ words # <<>>
    /\ RStripOf(Lower(words[Len(words)]), TerminalPunct)
          \notin forbidden_endings

\* generate_sentence_markovify(attempts, max_overlap_ratio); the call of
\* line 213 stands in no try block
\* line 213..219: what a query of the n-gram model can make the call return
Accepted(ng) ==
    {capitalize_first_letter(sentence) :
        sentence \in {s \in Produced(ng) : Acceptable(s)}}

generate_sentence_markovify(m, ng, attempts) ==
    IF ~ng.present \/ attempts <= 0
    THEN generate_sentence_custom(m, 8, 20)
    ELSE {Raises}
         \cup {Returns(sentence) : sentence \in Accepted(ng)}
         \cup generate_sentence_custom(m, 8, 20)

\* line 206..222: the runs of one call: how many queries of line 213 gave
\* no acceptable sentence, how many were made, the sentence accepted if
\* any, whether generate_sentence_custom was called, and the outcome
MarkovifyRun(rejected, queries, produced, fallback, out) ==
    [rejected |-> rejected, queries |-> queries, produced |-> produced,
     fallback |-> fallback, out |-> out]

MarkovifyRuns(m, ng, attempts) ==
    LET budget == IF attempts > 0 THEN attempts ELSE 0
        custom == generate_sentence_custom(m, 8, 20)
    IN  IF ~ng.present
        THEN {MarkovifyRun(0, 0, <<>>, TRUE, o) : o \in custom}
        ELSE {MarkovifyRun(i - 1, i, sentence, FALSE,
                           Returns(capitalize_first_letter(sentence))) :
                 i \in 1 .. budget,
                 sentence \in {x \in Produced(ng) : Acceptable(x)}}
             \cup {MarkovifyRun(i - 1, i, <<>>, FALSE, Raises) :
                      i \in 1 .. budget}
             \cup {MarkovifyRun(budget, budget, <<>>, TRUE, o) : o \in custom}

\* line 235..236, 244..245
TooShort(outcome, min_words) ==
    outcome.status = "returned" /\ Len(Split(outcome.text)) < min_words

\* line 250..252: an exception raised inside the try block
Recovered(outcomes, sentence) ==
    {IF o.status = "raised" THEN Returns(sentence) ELSE o : o \in outcomes}

\* generate_sentence(min_words, max_words)
generate_sentence(m, ng, min_words, max_words) ==
    LET custom == generate_sentence_custom(m, min_words, max_words)
        ngram == generate_sentence_markovify(m, ng, 15)
        first == (IF ng.present THEN ngram ELSE {}) \cup custom
        second == ngram \cup custom
        third == generate_sentence_custom(m, min_words, 30)
        Retry(o) == IF TooShort(o, min_words) THEN third ELSE {o}
        Attempt(o) == IF TooShort(o, min_words)
                      THEN UNION {Retry(o2) : o2 \in second} ELSE {o}
    IN  Recovered(UNION {Attempt(o) : o \in first}, SentenceErrorSentence)

\* line 229..247: the strategies one call of generate_sentence uses, in
\* order, with the outcome of the last one: "ngram" is a call of
\* generate_sentence_markovify, "table" one of generate_sentence_custom
\* with the caller's budgets, "table30" the one of line 247
Tried(used, out) == [used |-> used, out |-> out]

Attempts(m, ng, min_words, max_words) ==
    LET Strategy(name) ==
            CASE name = "ngram" -> generate_sentence_markovify(m, ng, 15)
              [] name = "table" ->
                    generate_sentence_custom(m, min_words, max_words)
              [] name = "table30" ->
                    generate_sentence_custom(m, min_words, 30)
        Then(a, names) ==
            UNION {{Tried(Append(a.used, name), o) : o \in Strategy(name)} :
                      name \in names}
        \* line 229: random.random() < 0.7 and markovify_model
        first == Then(Tried(<<>>, Raises),
                      IF ng.present THEN {"ngram", "table"} ELSE {"table"})
        \* line 238: random.random() < 0.5
        second == UNION {IF TooShort(a.out, min_words)
                         THEN Then(a, {"ngram", "table"}) ELSE {a} :
                            a \in first}
    IN  UNION {IF Len(a.used) = 2 /\ TooShort(a.out, min_words)
               THEN Then(a, {"table30"}) ELSE {a} : a \in second}

\* mutant: the sentences are joined without a separator
StoriesUnspaced(sentences, k) ==
    IF k <= 0 THEN {Returns(StoryEmptySentence)}
    ELSE {IF \E i \in 1 .. k : story[i].status = "hung" THEN Hangs
          ELSE Returns(Join([i \in 1 .. k |-> story[i].text], <<>>)) :
             story \in [1 .. k -> sentences]}

\* line 261..269: the stories of k sentences
Stories(sentences, k) ==
    IF k <= 0 THEN {Returns(StoryEmptySentence)}
    ELSE {IF \E i \in 1 .. k : story[i].status = "hung" THEN Hangs
          ELSE Returns(Join([i \in 1 .. k |-> story[i].text], <<" ">>)) :
             story \in [1 .. k -> sentences]}

\* generate_story(min_sentences, max_sentences, min_words, max_words);
\* random.randint raises ValueError on an empty range
generate_story(m, ng, min_sentences, max_sentences, min_words, max_words) ==
    IF min_sentences > max_sentences THEN {Returns(StoryErrorSentence)}
    ELSE UNION {Stories(generate_sentence(m, ng, min_words, max_words), k) :
                   k \in min_sentences .. max_sentences}

(***************************************************************************)
(* Processes, coroutines and the texts they handle                         *)
(***************************************************************************)
\* main.py (the serving loop) and upload_data.py (the bulk ingestion
\* utility) are two programs: each imports text_generator and has its own
\* module globals model_lock, markov_model and markovify_model.  They share
\* the database file.
Procs == {"bot", "upload"}

\* coroutines of the bot that await update_markov_model(): start-up
\* (main.py:112), the /mr command and the /if import command
BotTasks == {"h1", "h2"}
\* process_file of upload_data.py
BulkTask == "bulk"
Tasks == BotTasks \cup {BulkTask}

Proc(t) == IF t = BulkTask THEN "upload" ELSE "bot"

\* calls of update_markov_model per bot coroutine
MaxCalls == 1
\* inbound chat messages handled by handle_message
MaxInbound == 1

\* the words ws, each one character, separated by single spaces
RECURSIVE Spaced(_)
Spaced(ws) ==
    IF Len(ws) <= 1 THEN ws ELSE <<Head(ws), " ">> \o Spaced(Tail(ws))

\* a stored line of 59 distinct one-letter words
SeedLine == Spaced(LatinLower \o CyrLower) \o <<".">>
\* "a d f.": a line stored by an earlier run
StoredLine == <<"a"," ","d"," ","f",".">>

\* "da net": two words
ShortText == <<"ru_d","ru_a"," ","ru_n","ru_e","ru_t">>
\* "a c e.": three words
LongText == <<"a"," ","c"," ","e",".">>
\* "hi @bob"
MentionText == <<"h","i"," ","@","b","o","b">>
\* "/gm"
CommandText == <<"/","g","m">>

\* texts of inbound chat messages
InboundTexts == {ShortText, LongText, MentionText}
\* the lines of data.txt
FileLines == <<<<" ">> \o LongText \o <<"\n">>, <<"\n">>, CommandText \o <<"\n">>>>
\* what the messages table may hold when the programs start
InitialCorpora == {<<>>, <<StoredLine>>}

\* a stored line of 51 words, every one of them in forbidden_endings
ForbiddenLine == Join(ForbiddenWords, <<" ">>) \o <<".">>
\* what the messages table may hold when a generation function is called
\* "a 1 1": the token 1 follows itself and nothing else follows it
CycleText == <<"a"," ","1"," ","1">>
\* "kot i": a noun followed by the conjunction that opens ForbiddenLine
EndingText == <<"ru_k","ru_o","ru_t"," ","ru_i">>
\* "Kot sidit na okne.", "Kot lyubit moloko.", "Kot spit na okne."
CatSits ==
    <<"RU_K","ru_o","ru_t"," ","ru_s","ru_i","ru_d","ru_i","ru_t"," ",
      "ru_n","ru_a"," ","ru_o","ru_k","ru_n","ru_e",".">>
CatLikes ==
    <<"RU_K","ru_o","ru_t"," ","ru_l","ru_yu","ru_b","ru_i","ru_t"," ",
      "ru_m","ru_o","ru_l","ru_o","ru_k","ru_o",".">>
CatSleeps ==
    <<"RU_K","ru_o","ru_t"," ","ru_s","ru_p","ru_i","ru_t"," ","ru_n",
      "ru_a"," ","ru_o","ru_k","ru_n","ru_e",".">>
\* lines of 50 and of 51 distinct one-letter words: 50 and 51 keys
FiftyLine == Spaced(SubSeq(LatinLower \o CyrLower, 1, 50)) \o <<".">>
FiftyOneLine == Spaced(SubSeq(LatinLower \o CyrLower, 1, 51)) \o <<".">>
\* "a. b.": a full stop with a successor
RestartText == <<"a", ".", " ", "b", ".">>
CatCorpus == <<CatSits, CatLikes, CatSleeps>>
\* the same three lines after a line that alone gives 59 keys
PaddedCatCorpus == <<SeedLine>> \o CatCorpus
GenCorpora ==
    {<<>>, <<ShortText>>, <<LongText>>, <<ForbiddenLine>>,
     <<ForbiddenLine, LongText>>, <<SeedLine>>,
     <<ForbiddenLine, CycleText>>, <<ForbiddenLine, EndingText>>,
     CatCorpus, PaddedCatCorpus, <<FiftyLine>>, <<FiftyOneLine>>,
     <<SeedLine, RestartText>>}

\* a call of a generation function with its integer arguments
Call(fn, args) == [fn |-> fn, args |-> args]
\* generate_story(min_sentences=n, max_sentences=n) of handle_message
StoryCall == Call("generate_story", <<2, 2, 8, 20>>)
\* the calls made by the handlers of the bot
BotCalls == {StoryCall}
\* calls of the four functions, those of the handlers among them
GenCalls ==
    {Call("generate_sentence_custom", args) :
        args \in {<<8, 20>>, <<5, 15>>, <<2, 6>>, <<5, 20>>, <<0, 0>>,
                  <<3, 1>>, <<2, 10>>}}
    \cup {Call("generate_sentence_markovify", <<attempts>>) :
        attempts \in {15, 1, 0}}
    \cup {Call("generate_sentence", args) : args \in {<<8, 20>>, <<2, 6>>}}
    \cup {Call("generate_story", args) :
        args \in {<<2, 2, 8, 20>>, <<1, 1, 8, 20>>, <<0, 0, 8, 20>>,
                  <<2, 1, 8, 20>>, <<1, 2, 2, 6>>, <<0, 1, 8, 20>>}}

(***************************************************************************)
(* State                                                                   *)
(***************************************************************************)
VARIABLES
    corpus,           \* message_text of the rows of table messages, in order
    model_lock,       \* value of the semaphore model_lock, per process
    markov_model,     \* the live transition table, per process
    markovify_model,  \* the live n-gram model, per process
    pc,               \* where each coroutine stands
    messages,         \* local variable messages of update_markov_model
    calls,            \* update_markov_model calls issued by a bot coroutine
    inbound,          \* chat messages handled so far
    file,             \* lines of data.txt not read yet
    saved,            \* history: the live pair when the call got the permit
    issued,           \* history: len(corpus) when the call was issued
    did,              \* history: what the current call has done
    owed,             \* history: issued of every call skipped while this
                      \*          call held the permit
    lastRet,          \* history: the return made by the last step, if any
    lastGen,          \* history: the generation call made by the last step,
                      \*          if any, and what it read
    lastIn,           \* history: the text the last step passed to
                      \*          is_message_valid, if any, and the verdict
    db,               \* the singleton db of the bot and its connections
    saving            \* where each handler stands in save_filtered_message

vars == <<corpus, model_lock, markov_model, markovify_model, pc, messages,
          calls, inbound, file, saved, issued, did, owed, lastRet, lastGen,
          lastIn, db, saving>>

\* lines 49..117 of update_markov_model, entered with the permit held
Section == {"connect", "select", "close"}

InSection(t) == pc[t] \in Section

Pair(table, ngram) == [table |-> table, ngram |-> ngram]
LivePair(p) == Pair(markov_model[p], markovify_model[p])
NoPair == Pair(EmptyTable, NoNgram)

NoDid == [acquired |-> FALSE, waited |-> FALSE, read |-> FALSE,
          installed |-> FALSE, released |-> 0]
NoGen == [fn |-> "none", args |-> <<>>, table |-> EmptyTable,
          ngram |-> NoNgram, during |-> FALSE]
NoRet == [task |-> "none", outcome |-> "none", raised |-> FALSE,
          before |-> NoPair, issued |-> 0, owed |-> {}, nread |-> 0,
          did |-> NoDid]
NoIn == [seen |-> FALSE, text |-> <<>>, valid |-> FALSE, before |-> <<>>,
         by |-> "none"]

\* the connections the bot opens on the database: the one of init_db, the
\* one of each handler inside save_filtered_message
ConnIds == {"main", "inbound"} \cup BotTasks
\* Database.connect: self.conn = await aiosqlite.connect(self.db_name)
Connected(d, c) == [d EXCEPT !.conn = c, !.open = @ \cup {c}]
\* Database.disconnect: closes self.conn, which stays assigned; closing
\* rolls back what the connection has not committed
Disconnected(d) ==
    [d EXCEPT !.open = @ \ {d.conn}, !.pending[d.conn] = <<>>]
\* db after init_db
StartedDb == [conn |-> "main", open |-> {"main"},
              pending |-> [c \in ConnIds |-> <<>>]]
NotSaving == [at |-> "idle", raised |-> FALSE]

Started ==
    /\ model_lock = [p \in Procs |-> 1]
    /\ markov_model = [p \in Procs |-> EmptyTable]
    /\ markovify_model = [p \in Procs |-> NoNgram]
    /\ pc = [t \in Tasks |-> IF t = BulkTask THEN "file" ELSE "idle"]
    /\ messages = [t \in Tasks |-> <<>>]
    /\ calls = [t \in BotTasks |-> 0]
    /\ inbound = 0
    /\ file = FileLines
    /\ saved = [t \in Tasks |-> NoPair]
    /\ issued = [t \in Tasks |-> 0]
    /\ did = [t \in Tasks |-> NoDid]
    /\ owed = [t \in Tasks |-> {}]
    /\ lastRet = NoRet
    /\ lastGen = NoGen
    /\ lastIn = NoIn
    /\ db = StartedDb
    /\ saving = [t \in BotTasks |-> NotSaving]

Init == corpus \in InitialCorpora /\ Started

(***************************************************************************)
(* Corpus Store                                                            *)
(***************************************************************************)
\* Database.save_message: INSERT INTO messages ... ; commit
\* mutant: INSERT OR REPLACE on the last row
SaveMessageReplaces(message_text) ==
    corpus' = IF corpus = <<>> THEN <<message_text>>
              ELSE [corpus EXCEPT ![Len(corpus)] = message_text]

save_message(message_text) == corpus' = Append(corpus, message_text)

\* handle_message: a chat message is saved if it passes the filter
Inbound(text) ==
    /\ inbound < MaxInbound
    /\ inbound' = inbound + 1
    /\ IF is_message_valid(text)
       THEN save_message(text) /\ db' = Disconnected(Connected(db, "inbound"))
       ELSE UNCHANGED <<corpus, db>>
    /\ lastIn' = [seen |-> TRUE, text |-> text,
                  valid |-> is_message_valid(text), before |-> corpus,
                  by |-> "handle_message"]
    /\ lastRet' = NoRet
    /\ lastGen' = NoGen
    /\ UNCHANGED saving
    /\ UNCHANGED <<model_lock, markov_model, markovify_model, pc, messages,
                   calls, file, saved, issued, did, owed>>

(***************************************************************************)
(* process_text_file (the /if command): one pass of the loop over the      *)
(* lines of the file sent to the bot                                       *)
(***************************************************************************)
\* lines of a file sent with /if: "\n", " ab\n", "abc\n", " /gm\n",
\* "hi @bob\n", "a.co\n", "\ta c e. \n"
ImportLines ==
    {<<"\n">>, <<" ", "a", "b", "\n">>, <<"a", "b", "c", "\n">>,
     <<" ", "/", "g", "m", "\n">>, MentionText \o <<"\n">>,
     <<"a", ".", "c", "o", "\n">>, <<"\t">> \o LongText \o <<" ", "\n">>}

\* mutant: the filter is passed the line as read, the stripped line is
\* stored
ImportLineFiltersRaw(raw) ==
    /\ inbound < MaxInbound
    /\ inbound' = inbound + 1
    /\ LET line == Strip(raw) IN
       /\ IF line # <<>> /\ is_message_valid(raw)
          THEN save_message(line)
               /\ db' = Disconnected(Connected(db, "inbound"))
          ELSE UNCHANGED <<corpus, db>>
       /\ lastIn' = IF line = <<>> THEN NoIn
                    ELSE [seen |-> TRUE, text |-> line,
                          valid |-> is_message_valid(raw),
                          before |-> corpus, by |-> "process_text_file"]
    /\ lastRet' = NoRet
    /\ lastGen' = NoGen
    /\ UNCHANGED saving
    /\ UNCHANGED <<model_lock, markov_model, markovify_model, pc, messages,
                   calls, file, saved, issued, did, owed>>

\* file_processor.py line 30..52: the line is stripped; an empty line is
\* skipped; a line that passes the filter is saved
ImportLine(raw) ==
    /\ inbound < MaxInbound
    /\ inbound' = inbound + 1
    /\ LET line == Strip(raw) IN
       /\ IF line # <<>> /\ is_message_valid(line)
          THEN save_message(line)
               /\ db' = Disconnected(Connected(db, "inbound"))
          ELSE UNCHANGED <<corpus, db>>
       /\ lastIn' = IF line = <<>> THEN NoIn
                    ELSE [seen |-> TRUE, text |-> line,
                          valid |-> is_message_valid(line),
                          before |-> corpus, by |-> "process_text_file"]
    /\ lastRet' = NoRet
    /\ lastGen' = NoGen
    /\ UNCHANGED saving
    /\ UNCHANGED <<model_lock, markov_model, markovify_model, pc, messages,
                   calls, file, saved, issued, did, owed>>

(***************************************************************************)
(* save_filtered_message, one await at a time: the handlers of the bot     *)
(* share the singleton db, and each step uses the connection db.conn       *)
(* refers to when the step is taken                                        *)
(***************************************************************************)
AbcText == <<"a","b","c">>
\* the chat message handler t stores
SaveText(t) == IF t = "h1" THEN LongText ELSE AbcText

\* sqlite: another open connection holds the write lock because it has
\* inserted and not committed
Locked(d, c) == \E other \in d.open \ {c} : d.pending[other] # <<>>

Saved(t, at, raised) == saving' = [saving EXCEPT ![t] = [at |-> at, raised |-> raised]]

\* line 317: await db.connect()
SaveConnect(t) ==
    /\ saving[t].at = "idle"
    /\ is_message_valid(SaveText(t))
    /\ db' = Connected(db, t)
    /\ Saved(t, "execute", FALSE)
    /\ UNCHANGED corpus

\* line 97: await self.conn.execute(query, params); a closed connection
\* raises, a locked database raises once the busy timeout has passed
SaveExecute(t) ==
    /\ saving[t].at = "execute"
    /\ \/ /\ db.conn \in db.open
          /\ ~Locked(db, db.conn)
          /\ db' = [db EXCEPT !.pending[db.conn] = Append(@, SaveText(t))]
          /\ Saved(t, "commit", FALSE)
       \/ /\ db.conn \notin db.open \/ Locked(db, db.conn)
          /\ Saved(t, "finally", TRUE)
          /\ UNCHANGED db
    /\ UNCHANGED corpus

\* line 98: await self.conn.commit()
SaveCommit(t) ==
    /\ saving[t].at = "commit"
    /\ IF db.conn \in db.open
       THEN /\ corpus' = corpus \o db.pending[db.conn]
            /\ db' = [db EXCEPT !.pending[db.conn] = <<>>]
            /\ Saved(t, "finally", FALSE)
       ELSE /\ Saved(t, "finally", TRUE)
            /\ UNCHANGED <<corpus, db>>

\* line 319..320: finally: await db.disconnect()
SaveDisconnect(t) ==
    /\ saving[t].at = "finally"
    /\ db' = Disconnected(db)
    /\ Saved(t, IF saving[t].raised THEN "raised" ELSE "returned",
             saving[t].raised)
    /\ UNCHANGED corpus

save_filtered_message(t) ==
    /\ \/ SaveConnect(t)
       \/ SaveExecute(t)
       \/ SaveCommit(t)
       \/ SaveDisconnect(t)
    /\ lastRet' = NoRet
    /\ lastGen' = NoGen
    /\ lastIn' = NoIn
    /\ UNCHANGED <<model_lock, markov_model, markovify_model, pc, messages,
                   calls, inbound, file, saved, issued, did, owed>>

(***************************************************************************)
(* process_file of upload_data.py: the loop over the lines of the file     *)
(***************************************************************************)
BulkLine ==
    /\ pc[BulkTask] = "file"
    /\ file # <<>>
    /\ file' = Tail(file)
    /\ LET line == Strip(Head(file)) IN
       /\ IF line # <<>> /\ is_message_valid(line) THEN save_message(line)
          ELSE UNCHANGED corpus
       /\ lastIn' = IF line = <<>> THEN NoIn
                    ELSE [seen |-> TRUE, text |-> line,
                          valid |-> is_message_valid(line),
                          before |-> corpus, by |-> "process_file"]
    /\ lastRet' = NoRet
    /\ lastGen' = NoGen
    /\ UNCHANGED <<db, saving>>
    /\ UNCHANGED <<model_lock, markov_model, markovify_model, pc, messages,
                   calls, inbound, saved, issued, did, owed>>

(***************************************************************************)
(* update_markov_model                                                     *)
(***************************************************************************)
\* the coroutine may call update_markov_model now
CanCall(t) ==
    IF t = BulkTask THEN pc[t] = "file" /\ file = <<>>
    ELSE pc[t] = "idle" /\ calls[t] < MaxCalls

\* the call returns to its caller; process_file then finishes
Return(t, outcome, raised, d) ==
    /\ pc' = [pc EXCEPT ![t] = IF t = BulkTask THEN "done" ELSE "idle"]
    /\ lastRet' = [task |-> t, outcome |-> outcome, raised |-> raised,
                   before |-> saved[t], issued |-> issued[t],
                   owed |-> owed[t], nread |-> Len(messages[t]), did |-> d]
    /\ lastGen' = NoGen
    /\ lastIn' = NoIn
    /\ UNCHANGED <<db, saving>>
    /\ messages' = [messages EXCEPT ![t] = <<>>]
    /\ saved' = [saved EXCEPT ![t] = NoPair]
    /\ issued' = [issued EXCEPT ![t] = 0]
    /\ did' = [did EXCEPT ![t] = NoDid]

\* model_lock.release()
Release(p) == model_lock' = [model_lock EXCEPT ![p] = @ + 1]

\* line 115..117: finally: model_lock.release(), then the call returns
Finally(t, outcome, d) ==
    /\ Release(Proc(t))
    /\ Return(t, outcome, FALSE, [d EXCEPT !.released = @ + 1])
    /\ owed' = [owed EXCEPT ![t] = {}]

\* mutant: the handler leaves the permit taken
ExceptUpdateNoRelease(t, outcome) ==
    /\ Return(t, outcome, FALSE, did[t])
    /\ owed' = [owed EXCEPT ![t] = {}]
    /\ UNCHANGED <<model_lock, markov_model, markovify_model>>

\* mutant: the rebuild works on the live globals, so what was built when
\* the error came stays installed
ExceptUpdateKeepsPartial(t, outcome) ==
    /\ Finally(t, outcome, did[t])
    /\ markov_model' = [markov_model EXCEPT ![Proc(t)] = BuildTable(messages[t])]
    /\ markovify_model' = [markovify_model EXCEPT ![Proc(t)] = NoNgram]

\* line 113..117: except Exception: log; the finally clause; nothing is
\* installed
ExceptUpdate(t, outcome) ==
    /\ Finally(t, outcome, did[t])
    /\ UNCHANGED <<markov_model, markovify_model>>

\* a coroutine calls update_markov_model(): line 47 starts waiting for
\* the permit
Trigger(t) ==
    /\ CanCall(t)
    /\ pc' = [pc EXCEPT ![t] = "acquire"]
    /\ calls' = IF t \in BotTasks THEN [calls EXCEPT ![t] = @ + 1] ELSE calls
    /\ issued' = [issued EXCEPT ![t] = Len(corpus)]
    /\ did' = [did EXCEPT ![t] =
                  [NoDid EXCEPT !.waited = (model_lock[Proc(t)] = 0)]]
    /\ owed' = [owed EXCEPT ![t] = {}]
    /\ lastRet' = NoRet
    /\ lastGen' = NoGen
    /\ lastIn' = NoIn
    /\ UNCHANGED <<db, saving>>
    /\ UNCHANGED <<corpus, model_lock, markov_model, markovify_model,
                   messages, inbound, file, saved>>

\* mutant: the call goes on without the permit
AcquireUnguarded(t) ==
    /\ pc[t] = "acquire"
    /\ model_lock' = [model_lock EXCEPT ![Proc(t)] = IF @ > 0 THEN @ - 1 ELSE @]
    /\ pc' = [pc EXCEPT ![t] = "connect"]
    /\ saved' = [saved EXCEPT ![t] = LivePair(Proc(t))]
    /\ did' = [did EXCEPT ![t].acquired = TRUE]
    /\ lastRet' = NoRet
    /\ lastGen' = NoGen
    /\ lastIn' = NoIn
    /\ UNCHANGED <<db, saving>>
    /\ UNCHANGED <<corpus, markov_model, markovify_model, messages, calls,
                   inbound, file, issued, owed>>

\* line 47: model_lock.acquire() completes within the timeout
Acquire(t) ==
    /\ pc[t] = "acquire"
    /\ model_lock[Proc(t)] > 0
    /\ model_lock' = [model_lock EXCEPT ![Proc(t)] = @ - 1]
    /\ pc' = [pc EXCEPT ![t] = "connect"]
    /\ saved' = [saved EXCEPT ![t] = LivePair(Proc(t))]
    /\ did' = [did EXCEPT ![t].acquired = TRUE]
    /\ lastRet' = NoRet
    /\ lastGen' = NoGen
    /\ lastIn' = NoIn
    /\ UNCHANGED <<db, saving>>
    /\ UNCHANGED <<corpus, markov_model, markovify_model, messages, calls,
                   inbound, file, issued, owed>>

\* mutant: after the timeout the call carries on with the rebuild
TimeoutProceeds(t) ==
    /\ pc[t] = "acquire"
    /\ model_lock[Proc(t)] = 0
    /\ pc' = [pc EXCEPT ![t] = "connect"]
    /\ lastRet' = NoRet
    /\ lastGen' = NoGen
    /\ lastIn' = NoIn
    /\ UNCHANGED <<db, saving>>
    /\ UNCHANGED <<corpus, model_lock, markov_model, markovify_model,
                   messages, calls, inbound, file, saved, issued, did, owed>>

\* mutant: the call that timed out releases the permit
TimeoutReleases(t) ==
    /\ pc[t] = "acquire"
    /\ model_lock[Proc(t)] = 0
    /\ Release(Proc(t))
    /\ Return(t, "skipped", FALSE, did[t])
    /\ owed' = [h \in Tasks |->
                  IF h # t /\ InSection(h) /\ Proc(h) = Proc(t)
                  THEN owed[h] \cup {issued[t]} ELSE owed[h]]
    /\ UNCHANGED <<corpus, markov_model, markovify_model, calls, inbound,
                   file>>

\* line 47, 119..120: the permit stayed unavailable for 0.1 s;
\* asyncio.TimeoutError is caught and the call returns
Timeout(t) ==
    /\ pc[t] = "acquire"
    /\ model_lock[Proc(t)] = 0
    /\ Return(t, "skipped", FALSE, did[t])
    /\ owed' = [h \in Tasks |->
                  IF h # t /\ InSection(h) /\ Proc(h) = Proc(t)
                  THEN owed[h] \cup {issued[t]} ELSE owed[h]]
    /\ UNCHANGED <<corpus, model_lock, markov_model, markovify_model, calls,
                   inbound, file>>

\* line 54..55: db = Database(); await db.connect()
Connect(t) ==
    /\ pc[t] = "connect"
    /\ pc' = [pc EXCEPT ![t] = "select"]
    /\ lastRet' = NoRet
    /\ lastGen' = NoGen
    /\ lastIn' = NoIn
    /\ UNCHANGED <<db, saving>>
    /\ UNCHANGED <<corpus, model_lock, markov_model, markovify_model,
                   messages, calls, inbound, file, saved, issued, did, owed>>

\* line 55: aiosqlite.connect raises
ConnectError(t) ==
    /\ pc[t] = "connect"
    /\ ExceptUpdate(t, "connect_error")
    /\ UNCHANGED <<corpus, calls, inbound, file>>

\* mutant: the query misses the oldest row
SelectDropsFirst(t) ==
    /\ pc[t] = "select"
    /\ messages' = [messages EXCEPT ![t] =
                       IF corpus = <<>> THEN corpus ELSE Tail(corpus)]
    /\ did' = [did EXCEPT ![t].read = TRUE]
    /\ pc' = [pc EXCEPT ![t] = "close"]
    /\ lastRet' = NoRet
    /\ lastGen' = NoGen
    /\ lastIn' = NoIn
    /\ UNCHANGED <<db, saving>>
    /\ UNCHANGED <<corpus, model_lock, markov_model, markovify_model, calls,
                   inbound, file, saved, issued, owed>>

\* mutant: the query returns the rows stored when the call was made
SelectAsIssued(t) ==
    /\ pc[t] = "select"
    /\ messages' = [messages EXCEPT ![t] = SubSeq(corpus, 1, issued[t])]
    /\ did' = [did EXCEPT ![t].read = TRUE]
    /\ pc' = [pc EXCEPT ![t] = "close"]
    /\ lastRet' = NoRet
    /\ lastGen' = NoGen
    /\ lastIn' = NoIn
    /\ UNCHANGED <<db, saving>>
    /\ UNCHANGED <<corpus, model_lock, markov_model, markovify_model, calls,
                   inbound, file, saved, issued, owed>>

\* line 58..59: SELECT message_text FROM messages; fetchall()
Select(t) ==
    /\ pc[t] = "select"
    /\ messages' = [messages EXCEPT ![t] = corpus]
    /\ did' = [did EXCEPT ![t].read = TRUE]
    /\ pc' = [pc EXCEPT ![t] = "close"]
    /\ lastRet' = NoRet
    /\ lastGen' = NoGen
    /\ lastIn' = NoIn
    /\ UNCHANGED <<db, saving>>
    /\ UNCHANGED <<corpus, model_lock, markov_model, markovify_model, calls,
                   inbound, file, saved, issued, owed>>

\* line 58..59: the query raises
SelectError(t) ==
    /\ pc[t] = "select"
    /\ ExceptUpdate(t, "select_error")
    /\ UNCHANGED <<corpus, calls, inbound, file>>

\* line 62: await db.disconnect() raises
CloseError(t) ==
    /\ pc[t] = "close"
    /\ ExceptUpdate(t, "close_error")
    /\ UNCHANGED <<corpus, calls, inbound, file>>

\* line 62..67: the connection is closed; no row was read: return
RebuildEmpty(t) ==
    /\ pc[t] = "close"
    /\ messages[t] = <<>>
    /\ Finally(t, "empty", did[t])
    /\ UNCHANGED <<corpus, markov_model, markovify_model, calls, inbound,
                   file>>

\* mutant: the table is assigned and the n-gram model is left as it was
InstallTableOnly(p, table, ngram) ==
    /\ markov_model' = [markov_model EXCEPT ![p] = table]
    /\ UNCHANGED markovify_model

\* line 105..107: the two globals are assigned with no await in between
Install(p, table, ngram) ==
    /\ markov_model' = [markov_model EXCEPT ![p] = table]
    /\ markovify_model' = [markovify_model EXCEPT ![p] = ngram]

\* mutant: the rows are added to the live table instead of a fresh one
RebuildInstallIncremental(t) ==
    /\ pc[t] = "close"
    /\ messages[t] # <<>>
    /\ Install(Proc(t), BuildTableFrom(markov_model[Proc(t)], messages[t], 1),
               BuildNgram(messages[t]))
    /\ Finally(t, "installed", [did[t] EXCEPT !.installed = TRUE])
    /\ UNCHANGED <<corpus, calls, inbound, file>>

\* mutant: the table is built from the rows stored at the time of the
\* install
RebuildInstallsStored(t) ==
    /\ pc[t] = "close"
    /\ messages[t] # <<>>
    /\ Install(Proc(t), BuildTable(corpus), BuildNgram(messages[t]))
    /\ Finally(t, "installed", [did[t] EXCEPT !.installed = TRUE])
    /\ UNCHANGED <<corpus, calls, inbound, file>>

\* line 62..108, 115..117: the connection is closed, both models are built
\* from the rows read and installed; no await from line 63 on
RebuildInstall(t) ==
    /\ pc[t] = "close"
    /\ messages[t] # <<>>
    /\ Install(Proc(t), BuildTable(messages[t]), BuildNgram(messages[t]))
    /\ Finally(t, "installed", [did[t] EXCEPT !.installed = TRUE])
    /\ UNCHANGED <<corpus, calls, inbound, file>>

\* mutant: the new table is installed without an n-gram model
RebuildNgramErrorInstallsTable(t) ==
    /\ pc[t] = "close"
    /\ messages[t] # <<>>
    /\ processed_messages(messages[t]) # <<>>
    /\ Install(Proc(t), BuildTable(messages[t]), NoNgram)
    /\ Finally(t, "ngram_error", did[t])
    /\ UNCHANGED <<corpus, calls, inbound, file>>

\* line 100, 110..111, 115..117: markovify.Text raises; the except clause
\* of line 110 is entered before the assignments of line 106..107
RebuildNgramError(t) ==
    /\ pc[t] = "close"
    /\ messages[t] # <<>>
    /\ processed_messages(messages[t]) # <<>>
    /\ Finally(t, "ngram_error", did[t])
    /\ UNCHANGED <<corpus, markov_model, markovify_model, calls, inbound,
                   file>>

\* the steps of one update_markov_model call
Update(t) ==
    \/ Trigger(t)
    \/ Acquire(t)
    \/ Timeout(t)
    \/ Connect(t)
    \/ ConnectError(t)
    \/ Select(t)
    \/ SelectError(t)
    \/ CloseError(t)
    \/ RebuildEmpty(t)
    \/ RebuildInstall(t)
    \/ RebuildNgramError(t)

(***************************************************************************)
(* Generation calls                                                        *)
(***************************************************************************)
\* the sets of keys the call can add to the table m by indexing it
Adds(m, call) ==
    CASE call.fn = "generate_sentence_custom" ->
            CustomAdds(m, call.args[1], call.args[2])
      [] call.fn = "generate_sentence_markovify" -> MarkovifyAdds(m)
      [] call.fn = "generate_sentence" ->
            SentenceAdds(m, call.args[1], call.args[2])
      [] call.fn = "generate_story" ->
            StoryAdds(m, call.args[1], call.args[2], call.args[3],
                      call.args[4])

\* mutant: the call goes on only when the permit is free
GenerateWaits(call) ==
    /\ model_lock["bot"] > 0
    /\ lastGen' = [fn |-> call.fn, args |-> call.args,
                   table |-> markov_model["bot"],
                   ngram |-> markovify_model["bot"],
                   during |-> \E t \in BotTasks : InSection(t)]
    /\ \E added \in Adds(markov_model["bot"], call) :
          markov_model' =
              [markov_model EXCEPT !["bot"] = Indexing(@, added)]
    /\ lastRet' = NoRet
    /\ lastIn' = NoIn
    /\ UNCHANGED <<corpus, model_lock, markovify_model, pc, messages, calls,
                   inbound, file, saved, issued, did, owed, db, saving>>

\* a handler of the bot calls a generation function: the call reads the
\* two globals and returns before any other coroutine runs
Generate(call) ==
    /\ lastGen' = [fn |-> call.fn, args |-> call.args,
                   table |-> markov_model["bot"],
                   ngram |-> markovify_model["bot"],
                   during |-> \E t \in BotTasks : InSection(t)]
    /\ \E added \in Adds(markov_model["bot"], call) :
          markov_model' =
              [markov_model EXCEPT !["bot"] = Indexing(@, added)]
    /\ lastRet' = NoRet
    /\ lastIn' = NoIn
    /\ UNCHANGED <<corpus, model_lock, markovify_model, pc, messages, calls,
                   inbound, file, saved, issued, did, owed, db, saving>>

\* every outcome the call g can have on what it read
Outcomes(g) ==
    CASE g.fn = "generate_sentence_custom" ->
            generate_sentence_custom(g.table, g.args[1], g.args[2])
      [] g.fn = "generate_sentence_markovify" ->
            generate_sentence_markovify(g.table, g.ngram, g.args[1])
      [] g.fn = "generate_sentence" ->
            generate_sentence(g.table, g.ngram, g.args[1], g.args[2])
      [] g.fn = "generate_story" ->
            generate_story(g.table, g.ngram, g.args[1], g.args[2],
                           g.args[3], g.args[4])
      [] OTHER -> {}

(***************************************************************************)
(* The serving loop (main.py): chat messages are stored, coroutines call   *)
(* update_markov_model, handlers generate text                             *)
(***************************************************************************)
Serve ==
    \/ \E text \in InboundTexts : Inbound(text)
    \/ \E t \in BotTasks : Update(t)

Next ==
    \/ Serve
    \/ \E call \in BotCalls : Generate(call)

Spec == Init /\ [][Next]_vars

(***************************************************************************)
(* The bulk ingestion utility (upload_data.py), run while the bot serves   *)
(* on the same database                                                    *)
(***************************************************************************)
NextUpload ==
    \/ Serve
    \/ BulkLine
    \/ Update(BulkTask)

SpecUpload == Init /\ [][NextUpload]_vars

(***************************************************************************)
(* The generation functions on every kind of live model: the bot has       *)
(* either not rebuilt yet or installed the pair built from the stored      *)
(* lines                                                                   *)
(***************************************************************************)
InitGen ==
    /\ corpus \in GenCorpora
    /\ \E built \in BOOLEAN :
          /\ markov_model =
                [p \in Procs |-> IF built /\ p = "bot"
                                 THEN BuildTable(corpus) ELSE EmptyTable]
          /\ markovify_model =
                [p \in Procs |-> IF built /\ p = "bot"
                                 THEN BuildNgram(corpus) ELSE NoNgram]
    /\ model_lock = [p \in Procs |-> 1]
    /\ pc = [t \in Tasks |-> IF t = BulkTask THEN "file" ELSE "idle"]
    /\ messages = [t \in Tasks |-> <<>>]
    /\ calls = [t \in BotTasks |-> 0]
    /\ inbound = 0
    /\ file = FileLines
    /\ saved = [t \in Tasks |-> NoPair]
    /\ issued = [t \in Tasks |-> 0]
    /\ did = [t \in Tasks |-> NoDid]
    /\ owed = [t \in Tasks |-> {}]
    /\ lastRet = NoRet
    /\ lastGen = NoGen
    /\ lastIn = NoIn
    /\ db = StartedDb
    /\ saving = [t \in BotTasks |-> NotSaving]

NextGen == \E call \in GenCalls : Generate(call)

SpecGen == InitGen /\ [][NextGen]_vars

(***************************************************************************)
(* The filter on the texts of chat messages                                *)
(***************************************************************************)
MaxTextLen == 3
FilterAlphabet == {"a", "@", "/", "#"}
\* "ab", "check http://x.co", "hello @bob", "a.co", "www.a"
TwoChars == <<"a","b">>
LinkText ==
    <<"c","h","e","c","k"," ","h","t","t","p",":","/","/","x",".","c","o">>
HelloBob == <<"h","e","l","l","o"," ","@","b","o","b">>
DomainText == <<"a",".","c","o">>
WwwText == <<"w","w","w",".","a">>
\* message.text of the chat messages: None, the named texts and every
\* text of at most MaxTextLen characters of FilterAlphabet
FilterTexts ==
    {NoneText, TwoChars, AbcText, LinkText, HelloBob, DomainText,
     WwwText, LongText, MentionText, CommandText}
    \cup UNION {[1 .. n -> FilterAlphabet] : n \in 0 .. MaxTextLen}

NextFilter == \E text \in FilterTexts : Inbound(text)

SpecFilter == Init /\ [][NextFilter]_vars

(***************************************************************************)
(* The three writers of the messages table: chat messages, lines of a      *)
(* file sent with /if, lines of the file of the upload utility             *)
(***************************************************************************)
NextIngest ==
    \/ \E text \in FilterTexts : Inbound(text)
    \/ \E raw \in ImportLines : ImportLine(raw)
    \/ BulkLine

SpecIngest == Init /\ [][NextIngest]_vars

(***************************************************************************)
(* Two handlers of the bot inside save_filtered_message at once            *)
(***************************************************************************)
NextStore == \E t \in BotTasks : save_filtered_message(t)

SpecStore == Init /\ [][NextStore]_vars

(***************************************************************************)
(* Rebuilds and walks on a corpus whose table has more than 50 keys        *)
(***************************************************************************)
WalkCall == Call("generate_sentence_custom", <<8, 20>>)

\* what the messages table may hold when the bot starts
WalkCorpora == {<<>>, <<SeedLine>>}

InitWalk == corpus \in WalkCorpora /\ Started

NextWalk ==
    \/ \E t \in BotTasks : Update(t)
    \/ Generate(WalkCall)

SpecWalk == InitWalk /\ [][NextWalk]_vars

(***************************************************************************)
(* Properties of the update coordinator                                    *)
(***************************************************************************)
Holders(p) == {t \in Tasks : Proc(t) = p /\ InSection(t)}

\* the process of the call that returned in the last step
RetProc == Proc(lastRet.task)

\* the rows read by the call that returned in the last step (rows are only
\* ever appended, so they are the first nread rows)
RetRead == SubSeq(corpus, 1, lastRet.nread)

\* C1: in every interleaving of update_markov_model calls at most one call
\* of a process is inside the rebuild section (from acquiring model_lock
\* until its release).
C1_AtMostOneRebuild == \A p \in Procs : Cardinality(Holders(p)) <= 1

\* C1 witness: one call is inside the section while another call waits for
\* the permit.
C1_Witness ==
    \E t1, t2 \in BotTasks :
        t1 # t2 /\ pc[t1] = "close" /\ pc[t2] = "acquire"

\* the pair a rebuild that read rows installs
Rebuilt(rows) == Pair(BuildTable(rows), BuildNgram(rows))

\* the pair read by the generation call made in the last step
GenPair == Pair(lastGen.table, lastGen.ngram)

\* C2: in every interleaving of rebuilds and generation calls, the table
\* and the n-gram model a generation call works on are the initial empty
\* pair or the two models one rebuild built from the rows it read; never a
\* table of one rebuild with the n-gram model of another.
C2_GenerationReadsOnePair ==
    lastGen.fn # "none" =>
        \/ GenPair = NoPair
        \/ \E n \in 1 .. Len(corpus) : GenPair = Rebuilt(SubSeq(corpus, 1, n))

\* C2 witness: a generation call made between two rebuilds: it reads the
\* pair of the first while the second has read more rows and not installed.
C2_Witness ==
    /\ lastGen.fn # "none"
    /\ lastGen.ngram.present
    /\ \E t \in Holders("bot") :
          pc[t] = "close" /\ Rebuilt(messages[t]) # GenPair

\* C3: when the corpus read (connect or SELECT) raises, the live pair after
\* the call is the pair that was live when the call entered the section,
\* and the call returns normally.
C3_ReadErrorKeepsModel ==
    lastRet.outcome \in {"connect_error", "select_error"} =>
        /\ LivePair(RetProc) = lastRet.before
        /\ ~lastRet.raised
        /\ ~lastRet.did.installed

\* C3 witness: the SELECT raised while a model built by an earlier rebuild
\* was live.
C3_Witness ==
    /\ lastRet.outcome = "select_error"
    /\ lastRet.before # NoPair
    /\ lastRet.before.ngram.present

\* C4 as stated: when markovify.Text raises, the newly built table is
\* live and the live n-gram model is absent.
C4_NgramErrorInstallsTable ==
    lastRet.outcome = "ngram_error" =>
        /\ markov_model[RetProc] = BuildTable(RetRead)
        /\ markovify_model[RetProc] = NoNgram

\* C4 amended: when markovify.Text raises, nothing is installed: the live
\* pair is the pair that was live when the call entered the section, the
\* permit is released and the call returns normally.
C4_NgramErrorKeepsModel ==
    lastRet.outcome = "ngram_error" =>
        /\ LivePair(RetProc) = lastRet.before
        /\ ~lastRet.raised
        /\ lastRet.did.released = 1

\* C4 witness: markovify.Text raised in a rebuild whose table differs from
\* the live one.
C4_Witness ==
    /\ lastRet.outcome = "ngram_error"
    /\ lastRet.did.read
    /\ BuildTable(RetRead) # markov_model[RetProc]

\* C5: a call that acquired the permit releases it exactly once before it
\* returns, on every path; a call that did not acquire it never releases
\* it; so the permit is available whenever no call is in the section, and
\* a waiting call can then acquire it.
C5_PermitReleased ==
    /\ \A p \in Procs : model_lock[p] + Cardinality(Holders(p)) = 1
    /\ lastRet.task # "none" =>
          lastRet.did.released = (IF lastRet.did.acquired THEN 1 ELSE 0)
    /\ \A t \in Tasks :
          pc[t] = "acquire" /\ Holders(Proc(t)) = {} => ENABLED Acquire(t)

\* C5 witness: a call returned through the error path, the permit is
\* available again and another call is about to acquire it.
C5_Witness ==
    /\ lastRet.outcome = "select_error"
    /\ lastRet.did.released = 1
    /\ model_lock[RetProc] = 1
    /\ \E t \in BotTasks : pc[t] = "acquire"

\* C6 as stated: a call issued while another rebuild holds the permit
\* never performs a rebuild of its own.
C6_ContendedNeverRebuilds ==
    \A t \in Tasks : did[t].waited => ~InSection(t)

\* C6 amended: a call issued while another rebuild holds the permit is
\* dropped only if the permit stays unavailable for the whole timeout: the
\* call that times out has not acquired the permit, never reads the corpus
\* and installs nothing; only a call that acquired the permit is in the
\* section.
C6_SkippedDoesNothing ==
    /\ lastRet.outcome = "skipped" =>
          /\ ~lastRet.did.acquired
          /\ ~lastRet.did.read
          /\ ~lastRet.did.installed
          /\ Holders(RetProc) # {}
    /\ \A t \in Tasks : InSection(t) => did[t].acquired
    /\ \A t \in Tasks : did[t].read \/ did[t].installed => did[t].acquired

\* C6 witness: a call was skipped while another call was reading the
\* corpus.
C6_Witness ==
    /\ lastRet.outcome = "skipped"
    /\ lastRet.did.waited
    /\ \E h \in Holders(RetProc) : pc[h] = "select"

\* C7: a generation call never waits for the permit: each of the four
\* functions can be called and returns in every state, also while a rebuild
\* holds model_lock, and it works on the pair that is live when it is
\* called, which during a rebuild is the pair the rebuild found.
C7_GenerationNeverWaits ==
    /\ \A call \in GenCalls : ENABLED Generate(call)
    /\ lastGen.fn # "none" =>
          /\ GenPair = LivePair("bot")
          /\ lastGen.during = (Holders("bot") # {})
          /\ \A t \in Holders("bot") : GenPair = saved[t]

\* C7 witness: a generation call returned while a rebuild holds the permit
\* and has read rows that make a model different from the live one.
C7_Witness ==
    /\ lastGen.fn # "none"
    /\ lastGen.during
    /\ model_lock["bot"] = 0
    /\ \E t \in Holders("bot") :
          /\ messages[t] # <<>>
          /\ BuildTable(messages[t]) # lastGen.table
          /\ GenPair = saved[t]

\* C8 as stated: the in-flight update that made another call skip leaves,
\* when it installs, a model that reflects every line stored before the
\* skipped call was issued.
C8_InFlightReflectsSkipped ==
    lastRet.outcome = "installed" =>
        \A n \in lastRet.owed : n <= lastRet.nread

\* C8 amended: the in-flight update that made another call skip leaves,
\* when it installs, the model of exactly the lines that were stored when
\* it read the corpus; lines stored after that read are not reflected,
\* even if they were stored before the skipped call was issued.
C8_InFlightReflectsItsRead ==
    lastRet.outcome = "installed" /\ lastRet.owed # {} =>
        /\ lastRet.did.read
        /\ markov_model[RetProc] = BuildTable(RetRead)
        /\ markovify_model[RetProc] = BuildNgram(RetRead)

\* C8 witness: the in-flight update installed after a call was skipped
\* that had been issued when more lines were stored than the update read.
C8_Witness ==
    /\ lastRet.outcome = "installed"
    /\ \E n \in lastRet.owed : n > lastRet.nread

\* the successors of a key as a multiset
BagOf(successors) ==
    [x \in Range(successors) |->
        Cardinality({i \in DOMAIN successors : successors[i] = x})]

\* the same keys and, for every key, the same multiset of successors
SameTable(m1, m2) ==
    /\ DOMAIN m1 = DOMAIN m2
    /\ \A k \in DOMAIN m1 : BagOf(m1[k]) = BagOf(m2[k])

\* the rows in every order
Reordered(rows) ==
    {[i \in 1 .. Len(rows) |-> rows[f[i]]] : f \in Permutations(1 .. Len(rows))}

\* C15: the table a rebuild installs has the keys and the successor
\* multisets of the table built from the rows it read taken in any order,
\* whatever model was live before; so two rebuilds from the same rows give
\* the same table up to the order inside the buckets.
C15_RebuildIdempotent ==
    lastRet.outcome = "installed" =>
        \A rows \in Reordered(RetRead) :
            SameTable(markov_model[RetProc], BuildTable(rows))

\* C15 witness: a second rebuild from the rows the live model was built
\* from, two of which give a common key successors in a different order
\* when swapped.
C15_Witness ==
    /\ lastRet.outcome = "installed"
    /\ lastRet.before = Rebuilt(RetRead)
    /\ \E rows \in Reordered(RetRead) : BuildTable(rows) # BuildTable(RetRead)

(***************************************************************************)
(* Properties of the bulk ingestion utility                                *)
(***************************************************************************)
\* C9 as stated: the update_markov_model call that process_file makes
\* after its last line is never skipped and returns only after a rebuild
\* that read every stored line, the appended ones among them, has installed
\* its model.
C9_BulkUpdateRebuildsAll ==
    lastRet.task = BulkTask =>
        /\ lastRet.outcome # "skipped"
        /\ lastRet.did.installed
        /\ lastRet.nread >= lastRet.issued

(***************************************************************************)
(* Properties of the generator                                             *)
(***************************************************************************)
\* C10 as stated: on every live model and for every argument combination
\* each of the four generation functions returns a non-empty text and
\* never raises to its caller.
C10_GenerationNeverRaises ==
    lastGen.fn # "none" =>
        \A o \in Outcomes(lastGen) : o.status = "returned" /\ o.text # <<>>

\* C11 as stated: every generation call terminates, whatever table a
\* rebuild installed and whatever its arguments: the walk of
\* generate_sentence_custom always ends.
C11_GenerationTerminates ==
    lastGen.fn # "none" => \A o \in Outcomes(lastGen) : o.status # "hung"

\* the last word of a text, trailing '.', '!', '?' stripped, case-folded
FinalWord(text) ==
    LET words == Split(text) IN
    IF words = <<>> THEN <<>>
    ELSE RStripOf(Lower(words[Len(words)]), TerminalPunct)

\* C12 as stated: no sentence returned by generate_sentence, and no
\* sentence generate_sentence_markovify accepts from the n-gram model, ends
\* in a word of forbidden_endings.
C12_NoForbiddenEnding ==
    /\ lastGen.fn = "generate_sentence" =>
          \A o \in Outcomes(lastGen) :
              o.status = "returned" => FinalWord(o.text) \notin forbidden_endings
    /\ lastGen.fn = "generate_sentence_markovify" =>
          \A sentence \in Accepted(lastGen.ngram) :
              FinalWord(sentence) \notin forbidden_endings

\* the tokens of the stored lines
DistinctTokens(rows) ==
    UNION {Range(tokenize_text(rows[i])) : i \in DOMAIN rows}

\* the word lists the walk of the call g can end with
CustomWalks(g) ==
    UNION {Walk(g.table, <<Capitalize(current)>>, current, 1, g.args[1],
                g.args[2], MaxSteps) : current \in start_words(g.table)}
        \ {<<>>}

\* the walk that ended with words stopped at a token without successors
Starved(m, words) ==
    /\ Len(words) > 1
    /\ \/ words[Len(words)] \notin DOMAIN m
       \/ m[words[Len(words)]] = <<>>

EndsSentence(text) == text # <<>> /\ text[Len(text)] \in TerminalPunct

WordCount(text) == Len(Split(text))

max_overlap_ratio == 40

\* a and b share a contiguous run of k words
SharesRun(a, b, k) ==
    \E i \in 1 .. Len(a) - k + 1 : \E j \in 1 .. Len(b) - k + 1 :
        SubSeq(a, i, i + k - 1) = SubSeq(b, j, j + k - 1)

\* C14 as stated: every sentence generate_sentence_markovify returns on a
\* model built from the stored lines, accepted from the n-gram model or
\* obtained through its fallback, shares with any single stored line a
\* contiguous run of words no longer than max_overlap_ratio times the word
\* count of that line.
C14_OverlapBounded ==
    (lastGen.fn = "generate_sentence_markovify" /\ GenPair = Rebuilt(corpus)) =>
        \A o \in Outcomes(lastGen) : \A i \in DOMAIN corpus :
            o.status = "returned" =>
                \A k \in 1 .. WordCount(corpus[i]) :
                    SharesRun(Split(o.text), Split(corpus[i]), k) =>
                        k * 100 <= max_overlap_ratio * WordCount(corpus[i])

\* the texts the call g can return
ReturnedTexts(g) ==
    {o.text : o \in {x \in Outcomes(g) : x.status = "returned"}}

\* generate_sentence_custom(min_words=2, max_words=10) on the model built
\* from the stored lines
CatCall ==
    /\ lastGen.fn = "generate_sentence_custom"
    /\ lastGen.args = <<2, 10>>
    /\ GenPair = Rebuilt(corpus)

\* the sentence starts from the token "kot"
FromCat(text) ==
    Split(text) # <<>> /\ Lower(Head(Split(text))) = <<"ru_k","ru_o","ru_t">>

\* C16 as stated: with the three lines as the corpus, after a rebuild the
\* call can return each of the three sentences, and every sentence it
\* returns that starts from "kot" is one of them.
C16_CatScenario ==
    (CatCall /\ corpus = CatCorpus) =>
        /\ Range(CatCorpus) \subseteq ReturnedTexts(lastGen)
        /\ \A text \in ReturnedTexts(lastGen) :
              FromCat(text) => text \in Range(CatCorpus)

\* C16: with the three lines alone the table has 7 keys and the call
\* returns the sentences of the fixed pool and nothing else; with the three
\* lines and a line that brings the table above 50 keys without touching
\* their tokens, the call can return each of the three sentences and every
\* sentence it returns that starts from "kot" is one of them.
C16_CatScenarioAbove50Keys ==
    CatCall =>
        /\ corpus = CatCorpus => ReturnedTexts(lastGen) = base_sentences
        /\ corpus = PaddedCatCorpus =>
              {text \in ReturnedTexts(lastGen) : FromCat(text)}
                  = Range(CatCorpus)

\* C16 witness: the call on the model built from the padded corpus, which
\* can return the first of the three sentences.
C16_Witness ==
    /\ CatCall
    /\ corpus = PaddedCatCorpus
    /\ CatSits \in ReturnedTexts(lastGen)

(***************************************************************************)
(* Properties of the filter and of the Corpus Store                        *)
(***************************************************************************)
\* one of the six grounds for rejection holds of the text
Rejected(text) ==
    \/ text = NoneText
    \/ Len(text) < 3
    \/ contains_link(text)
    \/ contains_mentions(text)
    \/ contains_special_characters(text)
    \/ Head(text) = "/"

\* C17: is_message_valid(text) is False exactly when the text is absent,
\* shorter than 3 characters, matches the URL pattern, holds an @mention,
\* holds a character outside the whitelist or begins with '/'; "ab",
\* "check http://x.co", "hello @bob" and "/gm" are rejected and "abc" is
\* accepted; evaluating the filter changes nothing: a rejected text leaves
\* the stored lines as they were and an accepted text is the one line the
\* handler appends.
C17_FilterVerdict ==
    lastIn.seen =>
        /\ lastIn.valid = ~Rejected(lastIn.text)
        /\ lastIn.text \in {TwoChars, LinkText, HelloBob, CommandText}
              => ~lastIn.valid
        /\ lastIn.text = AbcText => lastIn.valid
        /\ corpus = IF lastIn.valid
                    THEN Append(lastIn.before, lastIn.text)
                    ELSE lastIn.before

\* C17 witness: the handler has passed "abc" to the filter and stored it.
C17_Witness ==
    /\ lastIn.seen
    /\ lastIn.text = AbcText
    /\ lastIn.valid
    /\ corpus = Append(lastIn.before, AbcText)

\* C18: in every reachable state, after rebuilds that installed, failed or
\* were skipped and after generation calls, every key of the live table of
\* each process has at least one successor, and a generation call leaves
\* the live table as it read it.
C18_NoEmptyBucket ==
    /\ \A p \in Procs : \A key \in DOMAIN markov_model[p] :
          markov_model[p][key] # <<>>
    /\ lastGen.fn # "none" => markov_model["bot"] = lastGen.table

\* C18 witness: a walk on a rebuilt table of more than 50 keys that stopped
\* below min_words, that is at a token the table has no key for.
C18_Witness ==
    /\ lastGen.fn = "generate_sentence_custom"
    /\ lastGen.table = BuildTable(corpus)
    /\ Cardinality(DOMAIN lastGen.table) > 50
    /\ \E words \in CustomWalks(lastGen) :
          /\ Starved(lastGen.table, words)
          /\ WordCount(FormatSentence(words)) < lastGen.args[1]

IsPrefix(rows, grown) ==
    Len(rows) <= Len(grown) /\ SubSeq(grown, 1, Len(rows)) = rows

\* C19: the corpus is append-only: every step of the bot (chat message,
\* rebuild, generation) leaves each stored line where and as it was, so
\* the stored lines before the step are a prefix of those after it.
C19_AppendOnly == [][IsPrefix(corpus, corpus')]_vars

\* C19 witness: a line has been appended after the lines already stored.
C19_Witness ==
    /\ lastIn.seen /\ lastIn.valid
    /\ lastIn.before # <<>>
    /\ IsPrefix(lastIn.before, corpus)
    /\ Len(corpus) = Len(lastIn.before) + 1

\* the number of stored lines equal to text
Count(text, rows) == Cardinality({i \in DOMAIN rows : rows[i] = text})

\* C20 as stated: when handlers call save_filtered_message concurrently,
\* in every interleaving each call completes without error and its line is
\* stored exactly once.
C20_ConcurrentAppends ==
    \A t \in BotTasks :
        saving[t].at \in {"returned", "raised"} =>
            /\ saving[t].at = "returned"
            /\ Count(SaveText(t), corpus) = 1

(***************************************************************************)
(* Properties of the dispatcher and of the strategies                      *)
(***************************************************************************)
\* the texts generate_sentence(min_words, max_words) can return on what
\* the story call g read
SentenceTexts(g) ==
    {o.text : o \in {x \in generate_sentence(g.table, g.ngram, g.args[3],
                                             g.args[4]) :
                        x.status = "returned"}}

\* text is k texts of S joined by single spaces
RECURSIVE IsJoin(_, _, _)
IsJoin(text, S, k) ==
    IF k <= 0 THEN text = <<>>
    ELSE IF k = 1 THEN text \in S
    ELSE \E part \in S :
            /\ Len(part) < Len(text)
            /\ SubSeq(text, 1, Len(part)) = part
            /\ text[Len(part) + 1] = " "
            /\ IsJoin(SubSeq(text, Len(part) + 2, Len(text)), S, k - 1)

StoryCallOf(g) ==
    g.fn = "generate_story" /\ g.args[1] <= g.args[2]

\* C21 as stated: with min_sentences <= max_sentences and
\* max_sentences >= 1, every text generate_story returns is k results of
\* generate_sentence joined by single spaces, for some k between
\* min_sentences and max_sentences.
C21_StoryIsJoin ==
    (StoryCallOf(lastGen) /\ lastGen.args[2] >= 1) =>
        LET S == SentenceTexts(lastGen) IN
        \A text \in ReturnedTexts(lastGen) :
            \E k \in lastGen.args[1] .. lastGen.args[2] : IsJoin(text, S, k)

\* C21: with min_sentences <= max_sentences, every text generate_story
\* returns is either k >= 1 results of generate_sentence joined by single
\* spaces, for some k between min_sentences and max_sentences, or, when
\* min_sentences <= 0 so that the drawn count can be below 1, the fixed
\* sentence of line 267.
C21_StoryIsJoinOrFixed ==
    StoryCallOf(lastGen) =>
        LET S == SentenceTexts(lastGen) IN
        \A text \in ReturnedTexts(lastGen) :
            \/ \E k \in lastGen.args[1] .. lastGen.args[2] :
                  k >= 1 /\ IsJoin(text, S, k)
            \/ lastGen.args[1] <= 0 /\ text = StoryEmptySentence

\* C21 witness: a story call with 1 to 2 sentences on a rebuilt table of
\* more than 50 keys that can return two sentences joined by a space.
C21_Witness ==
    /\ StoryCallOf(lastGen)
    /\ lastGen.args = <<1, 2, 2, 6>>
    /\ Cardinality(DOMAIN lastGen.table) > 50
    /\ LET S == SentenceTexts(lastGen) IN
       \E text \in ReturnedTexts(lastGen) :
          IsJoin(text, S, 2) /\ ~IsJoin(text, S, 1)

\* the outcomes of a walk from a start word of the table the call g read
WalkedOutcomes(g) ==
    UNION {
        {IF words = <<>> THEN Hangs ELSE Returns(FormatSentence(words)) :
            words \in Walk(g.table, <<Capitalize(current)>>, current, 1,
                           g.args[1], g.args[2], MaxSteps)}
        : current \in start_words(g.table)}

PoolOutcomes == {Returns(sentence) : sentence \in base_sentences}

\* C22 as stated: generate_sentence_custom on a table of fewer than 50
\* keys, the empty table included, returns a sentence of the fixed pool;
\* on a table of 50 or more keys with a start token it returns a walked
\* sentence.
C22_FallbackBelowFifty ==
    lastGen.fn = "generate_sentence_custom" =>
        LET keys == Cardinality(DOMAIN lastGen.table) IN
        /\ keys < 50 => Outcomes(lastGen) \subseteq PoolOutcomes
        /\ (keys >= 50 /\ start_words(lastGen.table) # {})
              => Outcomes(lastGen) = WalkedOutcomes(lastGen)

\* C22: generate_sentence_custom on the empty table returns the fixed
\* sentence of line 135, which is not in the pool; on a table of 1 to 50
\* keys, or of more than 50 keys none of which is a start token, it
\* returns any sentence of the fixed pool and nothing else; on a table
\* of more than 50 keys with a start token it returns a walked sentence.
C22_FallbackUpToFifty ==
    lastGen.fn = "generate_sentence_custom" =>
        LET keys == Cardinality(DOMAIN lastGen.table) IN
        /\ keys = 0 => /\ Outcomes(lastGen) = {Returns(NoDataSentence)}
                       /\ NoDataSentence \notin base_sentences
        /\ (keys \in 1 .. 50 \/ (keys > 50 /\ start_words(lastGen.table) = {}))
              => Outcomes(lastGen) = PoolOutcomes
        /\ (keys > 50 /\ start_words(lastGen.table) # {})
              => /\ Outcomes(lastGen) = WalkedOutcomes(lastGen)
                 /\ Outcomes(lastGen) \cap PoolOutcomes = {}

\* C22 witness: the call on a table of exactly 50 keys with start tokens,
\* which returns the sentences of the pool.
C22_Witness ==
    /\ lastGen.fn = "generate_sentence_custom"
    /\ Cardinality(DOMAIN lastGen.table) = 50
    /\ start_words(lastGen.table) # {}
    /\ ReturnedTexts(lastGen) = base_sentences

\* C23 as stated: in every call of generate_sentence the first attempt
\* uses the n-gram strategy only if an n-gram model is installed, a second
\* attempt uses the strategy the first did not use, a third attempt is
\* the transition-table strategy with max_words = 30, and there are at
\* most three attempts.
C23_RetryWithOtherStrategy ==
    lastGen.fn = "generate_sentence" =>
        \A a \in Attempts(lastGen.table, lastGen.ngram, lastGen.args[1],
                          lastGen.args[2]) :
            /\ Len(a.used) \in 1 .. 3
            /\ a.used[1] = "ngram" => lastGen.ngram.present
            /\ Len(a.used) >= 2 =>
                  /\ a.used[2] \in {"ngram", "table"}
                  /\ a.used[2] # a.used[1]
            /\ Len(a.used) = 3 => a.used[3] = "table30"

MarkovifyCall == lastGen.fn = "generate_sentence_markovify"

\* the runs of the call the last step made
RunsOf(g) == MarkovifyRuns(g.table, g.ngram, g.args[1])

\* the selection and fallback rules of C24, the returned text apart
NgramSelection(g, r) ==
    /\ r.queries <= (IF g.args[1] > 0 THEN g.args[1] ELSE 0)
    /\ r.fallback <=> (~g.ngram.present \/ r.rejected >= g.args[1])
    /\ r.fallback => r.out \in generate_sentence_custom(g.table, 8, 20)
    /\ (~r.fallback /\ r.out.status = "returned") =>
          /\ r.produced \in Produced(g.ngram)
          /\ FinalWord(r.produced) \notin forbidden_endings
          /\ r.queries = r.rejected + 1

\* C24 as stated: generate_sentence_markovify queries the n-gram model at
\* most attempts times, returns the first produced sentence whose last
\* word is not a forbidden ending, and calls the transition-table strategy
\* exactly when no n-gram model is installed or all attempts queries gave
\* no acceptable sentence.
C24_ReturnsProducedSentence ==
    MarkovifyCall =>
        \A r \in RunsOf(lastGen) :
            /\ NgramSelection(lastGen, r)
            /\ (~r.fallback /\ r.out.status = "returned")
                  => r.out.text = r.produced

\* C24: generate_sentence_markovify queries the n-gram model at most
\* attempts times; the first produced sentence whose last word is not a
\* forbidden ending is returned with its first character upper-cased; it
\* calls the transition-table strategy, with budgets (8, 20), exactly when
\* no n-gram model is installed or all attempts queries gave no acceptable
\* sentence; a query that raises ends the call without a fallback.
C24_ReturnsCapitalizedSentence ==
    MarkovifyCall =>
        /\ {r.out : r \in RunsOf(lastGen)} = Outcomes(lastGen)
        /\ \A r \in RunsOf(lastGen) :
              /\ NgramSelection(lastGen, r)
              /\ (~r.fallback /\ r.out.status = "returned")
                    => r.out.text = capitalize_first_letter(r.produced)
              /\ r.out.status = "raised" => ~r.fallback

\* C24 witness: a call with 15 attempts whose second query gave the first
\* acceptable sentence, one that starts with a lower-case letter.
C24_Witness ==
    /\ MarkovifyCall
    /\ lastGen.args = <<15>>
    /\ \E r \in RunsOf(lastGen) :
          /\ r.queries = 2 /\ ~r.fallback
          /\ r.out.status = "returned"
          /\ r.out.text # r.produced

(***************************************************************************)
(* Further properties of the rebuild                                       *)
(***************************************************************************)
\* the line has 3 or more whitespace-separated words; the '.' appended to
\* a trimmed line attaches to its last word
Qualifies(line) == Len(Split(line)) >= 3

\* C25: after a rebuild that installs, the live n-gram model is present
\* if and only if one of the lines it read has 3 or more words once
\* trimmed and closed by '.'; the table of the lines read is installed
\* also when no line qualifies, and the live n-gram model is then absent
\* whatever it was before.
C25_NgramPresentIffQualifies ==
    lastRet.outcome = "installed" =>
        /\ markovify_model[RetProc].present
              <=> \E i \in DOMAIN RetRead : Qualifies(RetRead[i])
        /\ markov_model[RetProc] = BuildTable(RetRead)
        /\ (\A i \in DOMAIN RetRead : ~Qualifies(RetRead[i]))
              => markovify_model[RetProc] = NoNgram

\* C25 witness: a rebuild has installed the table of lines none of which
\* qualifies, with no n-gram model.
C25_Witness ==
    /\ lastRet.outcome = "installed"
    /\ RetRead # <<>>
    /\ markov_model[RetProc] # EmptyTable
    /\ ~markovify_model[RetProc].present

(***************************************************************************)
(* Properties of the walk                                                  *)
(***************************************************************************)
\* the table m records that token b follows token a
Recorded(m, a, b) == a \in DOMAIN m /\ \E i \in DOMAIN m[a] : m[a][i] = b

\* the tokens of a walk: the start token as the table holds it, then the
\* tokens drawn
WalkTokens(words) == [i \in DOMAIN words |->
                        IF i = 1 THEN Lower(words[i]) ELSE words[i]]

\* line 186..187: the tokens of the sentence, a closing '.' appended when
\* the walk did not end on '.', '!' or '?'
SentenceTokens(words) ==
    IF words[Len(words)] \in TerminalTokens THEN WalkTokens(words)
    ELSE Append(WalkTokens(words), <<".">>)

Follows(m, tokens) ==
    \A i \in 1 .. Len(tokens) - 1 : Recorded(m, tokens[i], tokens[i + 1])

\* the number of tokens made of letters only
Alphabetic(tokens) ==
    Cardinality({i \in DOMAIN tokens :
                    \A j \in DOMAIN tokens[i] : tokens[i][j] \in Letters})

\* the counter of line 164 and 179: 1 for the start token, 1 more for
\* each token of letters drawn
Counted(tokens) == 1 + Alphabetic(Tail(tokens))

WalkCallOf(g) ==
    /\ g.fn = "generate_sentence_custom"
    /\ g.args[2] >= 1

\* C26 as stated: in a sentence the walk produces with max_words >= 1,
\* every pair of adjacent tokens is recorded in the live table, the
\* tokens of letters are at most max_words, and the walk ends on '.', '!'
\* or '?' only after min_words tokens of letters.
C26_WalkFollowsTable ==
    WalkCallOf(lastGen) =>
        \A words \in CustomWalks(lastGen) :
            /\ Follows(lastGen.table, SentenceTokens(words))
            /\ Alphabetic(SentenceTokens(words)) <= lastGen.args[2]
            /\ words[Len(words)] \in TerminalTokens
                  => Alphabetic(WalkTokens(words)) >= lastGen.args[1]

\* C26: with max_words >= 1, every pair of adjacent tokens the walk
\* emitted is recorded in the live table (the '.' appended after a walk
\* that did not end on '.', '!' or '?' is not drawn from the table); the
\* tokens of letters are at most max_words; the walk ends on '.', '!' or
\* '?' only if its counter (1 for the start token and 1 for each token of
\* letters drawn) has reached min_words or that token has no successor.
C26_WalkFollowsTableUntilClosed ==
    WalkCallOf(lastGen) =>
        \A words \in CustomWalks(lastGen) :
            /\ Follows(lastGen.table, WalkTokens(words))
            /\ Alphabetic(SentenceTokens(words)) <= lastGen.args[2]
            /\ words[Len(words)] \in TerminalTokens
                  => \/ Counted(WalkTokens(words)) >= lastGen.args[1]
                     \/ Starved(lastGen.table, words)

\* C26 witness: a walk that passed a '.' below min_words, went on from
\* its successor and ended on a '.' with the counter at min_words.
C26_Witness ==
    /\ WalkCallOf(lastGen)
    /\ \E words \in CustomWalks(lastGen) :
          /\ Len(words) > 3
          /\ words[2] = <<".">>
          /\ words[Len(words)] = <<".">>
          /\ Counted(WalkTokens(words)) >= lastGen.args[1]

(***************************************************************************)
(* Properties of the rebuild under appends                                 *)
(***************************************************************************)
\* C27: in every reachable state the live table of a process is the table
\* built from the rows one read of the corpus returned (the empty corpus
\* before the first install): a rebuild that ends without an error leaves
\* live the table of exactly the rows its SELECT returned, without the
\* rows appended after that read, and no state holds a table that is not
\* the table of one prefix of the stored rows.
C27_TableOfOneRead ==
    /\ \A p \in Procs :
          \E n \in 0 .. Len(corpus) :
              markov_model[p] = BuildTable(SubSeq(corpus, 1, n))
    /\ lastRet.outcome \in {"installed", "empty"} =>
          markov_model[RetProc] = BuildTable(RetRead)

\* C27 witness: after an earlier install, a rebuild installed the table
\* of the rows it read while a row appended after its read is stored; the
\* live table is not the table of the stored rows.
C27_Witness ==
    /\ lastRet.outcome = "installed"
    /\ lastRet.before # NoPair
    /\ lastRet.nread < Len(corpus)
    /\ markov_model[RetProc] = BuildTable(RetRead)
    /\ markov_model[RetProc] # BuildTable(corpus)

\* C28: a call of update_markov_model that does not get the permit within
\* its timeout returns normally, and the step that returns it leaves the
\* live table, the live n-gram model and the permit as they were; after
\* every step the permit value of each process is 0 or 1, and a call that
\* returns without having acquired the permit has not changed it.
C28_TimedOutCallKeepsPermit ==
    [][/\ lastRet'.outcome = "skipped" =>
             /\ ~lastRet'.raised
             /\ ~lastRet'.did.acquired
             /\ markov_model' = markov_model
             /\ markovify_model' = markovify_model
       /\ \A p \in Procs : model_lock'[p] \in {0, 1}
       /\ lastRet'.task # "none" /\ ~lastRet'.did.acquired =>
             /\ lastRet'.did.released = 0
             /\ model_lock' = model_lock]_vars

\* C28 witness: a call timed out while the call holding the permit had
\* read rows it has not installed yet; the permit is still taken.
C28_Witness ==
    /\ lastRet.outcome = "skipped"
    /\ ~lastRet.did.acquired
    /\ model_lock[RetProc] = 0
    /\ \E h \in Holders(RetProc) : pc[h] = "close" /\ messages[h] # <<>>

\* C29: the rows behind the live model never regress: in every
\* interleaving of calls and appends, when a rebuild installs its model
\* the table it replaces is the table of a prefix of the rows it read, so
\* the rows read by a rebuild that installs include every row read by
\* each rebuild of the process that installed before it.
C29_InstallNeverRegresses ==
    [][\A t \in Tasks :
          lastRet'.task = t /\ lastRet'.outcome = "installed" =>
              \E n \in 0 .. Len(messages[t]) :
                  markov_model[Proc(t)] =
                      BuildTable(SubSeq(messages[t], 1, n))]_vars

\* C29 witness: a rebuild installed over the model of an earlier rebuild
\* after reading more rows than that one.
C29_Witness ==
    /\ lastRet.outcome = "installed"
    /\ lastRet.before # NoPair
    /\ lastRet.before.table # markov_model[RetProc]
    /\ \E n \in 1 .. lastRet.nread - 1 :
          lastRet.before.table = BuildTable(SubSeq(corpus, 1, n))

(***************************************************************************)
(* Properties of the writers of the messages table                         *)
(***************************************************************************)
\* C30: in every reachable state every stored line passes
\* is_message_valid, whichever writer appended it (handle_message, the
\* /if import of process_text_file, process_file of the upload utility):
\* each writer appends exactly the text it passed to the filter, and only
\* when the filter accepted it; a rejected text leaves the stored lines as
\* they were.
C30_StoredLinesPassedFilter ==
    /\ \A i \in DOMAIN corpus : is_message_valid(corpus[i])
    /\ lastIn.seen =>
          corpus = IF is_message_valid(lastIn.text)
                   THEN Append(lastIn.before, lastIn.text)
                   ELSE lastIn.before

\* C30 witness: the /if import has stored the stripped line "a c e." after
\* a line stored by another writer, and would have stored nothing for
\* " /gm", whose stripped form is a command.
C30_Witness ==
    /\ lastIn.seen
    /\ lastIn.by = "process_text_file"
    /\ lastIn.text = LongText
    /\ Len(corpus) >= 2
    /\ corpus[Len(corpus)] = LongText
    /\ ~is_message_valid(Strip(<<" ", "/", "g", "m", "\n">>))
    /\ is_message_valid(<<" ", "/", "g", "m", "\n">>)

====
